---------------------------- MODULE Spec2Model ----------------------------
(***************************************************************************)
(* A model of the legislative dashboard service: the store client, the     *)
(* trend series endpoint and its chart, and the speech search endpoint.    *)
(*                                                                         *)
(* Each part of the service has one variable holding a record of its       *)
(* state, and one specification (SpecClient, SpecTrend, SpecSnippet,       *)
(* SpecSpeech) under which the other parts stay Off.                       *)
(***************************************************************************)
EXTENDS Integers, Sequences, FiniteSets, TLC

VARIABLES
    client,   \* one HTTP request to an endpoint, and its calls of sb_select
    trend,    \* one request of /api/trend2/series and the chart drawn from it
    snip,     \* one call of _make_snippet
    speech,   \* a speech search session: requests repeated with next_offset
    law,      \* one request of a law2 stacking endpoint
    meta,     \* session labels, the assembly mapping, /api/sessions
    news,     \* one request of /api/news/issues
    ui        \* the dashboard page: its aggregations of fetched rows

vars == <<client, trend, snip, speech, law, meta, news, ui>>

None == "None"
Off == [pc |-> "off"]

Max(a, b) == IF a >= b THEN a ELSE b
Min(a, b) == IF a <= b THEN a ELSE b

(***************************************************************************)
(* The store client, sb_select, and the endpoints' control flow around it  *)
(***************************************************************************)

\* Bound: the store calls a paginating handler makes in one request.
MaxCalls == 3

\* SUPABASE_URL and SUPABASE_KEY after loading: "" when the variable is unset.
UrlChoices == {"", "https://db"}
KeyChoices == {"", "key"}

\* What the store can answer to one GET: a status code and a raw body.
StoreStatuses == {200, 206, 399, 400, 404, 500, 503}
StoreBodies == {"[]", "{\"message\":\"boom\"}"}

ConfigMissingAnd(url, key) == url = "" /\ key = ""

\* sb_select's guard: `if not SUPABASE_URL or not SUPABASE_KEY`.
ConfigMissing(url, key) == url = "" \/ key = ""

StoreErrorAs500(status, body) == [code |-> 500, detail |-> body]

\* `raise HTTPException(status_code=r.status_code, detail=r.text)`.
StoreError(status, body) == [code |-> status, detail |-> body]

\* The API endpoints of the route modules.
Endpoints ==
    { "sessions", "recap_text", "recap_people", "recap_data", "questions",
      "law_policy", "law_session", "law2_options", "law2_stack_category",
      "law2_stack_party", "trend2_options", "trend2_options_l3",
      "trend2_series", "party_domain_metrics", "speech_range",
      "speech_search", "news_issues", "news_issue" }

\* The classes of request parameters that decide what a handler does before
\* its first store call.
InputsOf(ep) ==
    CASE ep = "trend2_series" -> {"recent", "range", "no_range"}
      [] ep = "news_issue" -> {"keyword", "blank_keyword"}
      [] ep = "speech_search" -> {"dates", "no_dates", "bad_date"}
      [] ep \in {"law2_options", "law2_stack_category", "law2_stack_party"} ->
            {"assembly_number", "assembly_all", "assembly_other"}
      [] OTHER -> {"any"}

\* What the handler does before it calls the store client: "call" it, "return"
\* a result computed without the store, or fail with a status of its own.
PreStore(ep, inp) ==
    CASE ep = "trend2_options_l3" -> "return"                     \* pure lookup
      [] ep = "trend2_series" /\ inp = "no_range" -> "return"     \* return []
      [] ep = "news_issue" /\ inp = "blank_keyword" -> "return"   \* return []
      [] ep = "speech_search" /\ inp = "bad_date" -> "raise400"   \* _validate_date
      [] ep \in {"law2_options", "law2_stack_category", "law2_stack_party"}
            /\ inp = "assembly_other" -> "crash"                  \* int(assembly)
      [] OTHER -> "call"

PreStoreStatus(ep, inp) ==
    CASE PreStore(ep, inp) = "return" -> 200
      [] PreStore(ep, inp) = "raise400" -> 400
      [] PreStore(ep, inp) = "crash" -> 500
      [] OTHER -> 0

\* The store calls a handler makes once all of them succeed: a fixed number,
\* or, where the handler paginates, any number from its least one on.
Paginates(ep) == ep \in {"trend2_series", "speech_search"}

LeastCalls(ep, inp) ==
    CASE ep = "sessions" -> 3
      [] ep = "trend2_options" -> 2
      [] ep = "speech_range" -> 2
      [] ep = "speech_search" /\ inp = "no_dates" -> 2
      [] OTHER -> 1

\* No answer received yet, no HTTPException raised yet.
NoAnswer == [status |-> 0, body |-> ""]
NoError == [code |-> 0, detail |-> ""]

ClientInit ==
    /\ trend = Off /\ snip = Off /\ speech = Off
    /\ law = Off /\ meta = Off /\ news = Off /\ ui = Off
    /\ client \in { [pc |-> "idle", url |-> u, key |-> k, ep |-> None, inp |-> None,
                  calls |-> 0, gets |-> 0, callGets |-> 0,
                  answer |-> NoAnswer, raised |-> NoError, status |-> 0, detail |-> ""]
                 : u \in UrlChoices, k \in KeyChoices }

\* A request arrives and the handler runs up to its first store call.
Request(ep, inp) ==
    /\ client.pc = "idle"
    /\ client' = [client EXCEPT
            !.ep = ep, !.inp = inp,
            !.pc = IF PreStore(ep, inp) = "call" THEN "call" ELSE "done",
            !.status = PreStoreStatus(ep, inp)]
    /\ UNCHANGED <<trend, snip, speech, law, meta, news, ui>>

\* sb_select up to its await: the configuration guard, then the one GET.
SbSelect ==
    /\ client.pc = "call"
    /\ IF ConfigMissing(client.url, client.key)
       THEN client' = [client EXCEPT
                !.pc = "done", !.callGets = 0,
                !.raised = [code |-> 500, detail |-> "config"],
                !.status = 500, !.detail = "config"]
       ELSE client' = [client EXCEPT
                !.pc = "await", !.callGets = 1, !.gets = @ + 1,
                !.answer = NoAnswer, !.raised = NoError]
    /\ UNCHANGED <<trend, snip, speech, law, meta, news, ui>>

\* The store answers; sb_select raises on a status >= 400, else returns the rows
\* to the handler, which propagates an HTTPException unchanged.
SbAnswer(status, body) ==
    /\ client.pc = "await"
    /\ IF status >= 400
       THEN client' = [client EXCEPT
                !.pc = "done",
                !.answer = [status |-> status, body |-> body],
                !.raised = StoreError(status, body),
                !.status = StoreError(status, body).code,
                !.detail = StoreError(status, body).detail]
       ELSE client' = [client EXCEPT
                !.pc = "returned",
                !.answer = [status |-> status, body |-> body],
                !.calls = @ + 1]
    /\ UNCHANGED <<trend, snip, speech, law, meta, news, ui>>

\* The GET fails without an answer (timeout, connection error): the httpx
\* exception leaves sb_select and ends the request as an internal error.
SbTransportError ==
    /\ client.pc = "await"
    /\ client' = [client EXCEPT
            !.pc = "done", !.raised = [code |-> 500, detail |-> "transport"],
            !.status = 500, !.detail = "transport"]
    /\ UNCHANGED <<trend, snip, speech, law, meta, news, ui>>

\* The handler goes on after a successful call: to its next call, or to its
\* response.
NextCall ==
    /\ client.pc = "returned"
    /\ \/ client.calls < LeastCalls(client.ep, client.inp)
       \/ Paginates(client.ep) /\ client.calls < MaxCalls
    /\ client' = [client EXCEPT !.pc = "call"]
    /\ UNCHANGED <<trend, snip, speech, law, meta, news, ui>>

Respond ==
    /\ client.pc = "returned"
    /\ client.calls >= LeastCalls(client.ep, client.inp)
    /\ client' = [client EXCEPT !.pc = "done", !.status = 200]
    /\ UNCHANGED <<trend, snip, speech, law, meta, news, ui>>

ClientNext ==
    \/ \E ep \in Endpoints : \E inp \in InputsOf(ep) : Request(ep, inp)
    \/ SbSelect
    \/ \E st \in StoreStatuses : \E b \in StoreBodies : SbAnswer(st, b)
    \/ SbTransportError
    \/ NextCall
    \/ Respond

SpecClient == ClientInit /\ [][ClientNext]_vars

C2_OneGetSameStatusNoRetry ==
    /\ client.pc \in {"await", "returned"} => client.callGets = 1
    /\ client.gets = client.calls
            + (IF client.pc = "await" THEN 1 ELSE 0)
            + (IF client.pc = "done" /\ client.raised # NoError /\ client.callGets = 1
               THEN 1 ELSE 0)
    /\ (client.answer # NoAnswer /\ client.answer.status >= 400) =>
            /\ client.pc = "done"
            /\ client.callGets = 1
            /\ client.raised = [code |-> client.answer.status,
                                detail |-> client.answer.body]
            /\ client.status = client.answer.status
            /\ client.detail = client.answer.body

C2_Witness ==
    /\ client.pc = "done" /\ client.answer # NoAnswer /\ client.answer.status = 404
    /\ client.status = 404 /\ client.calls = 2 /\ client.gets = 3

(***************************************************************************)
(* The trend series: routers/trend.py api_trend2_series, and the chart     *)
(* main.py's renderTrend2Line draws from its rows                          *)
(***************************************************************************)

\* Bound: the rows of the trend2 table.
MaxRows == 3

\* A null year, quarter or session of a stored row (_safe_int gives None).
NullInt == -1

\* The page sizes tried (the code's is 50000) and the probe's row limit.
PageSizes == {1, 2}
ProbeLimit == 5000

\* The rows the table can hold: year, quarter, session, label_l2, label_l3.
TrendPeriods == {<<2024, 4>>, <<2025, NullInt>>, <<2025, 1>>, <<2025, 2>>}
TrendTags == {<<378, "A", "a">>, <<415, "A", "a">>, <<415, None, None>>}
TrendRows ==
    { [year |-> p[1], quarter |-> p[2], session |-> g[1],
       label_l2 |-> g[2], label_l3 |-> g[3]]
      : p \in TrendPeriods, g \in TrendTags }

\* (y1, q1) < (y2, q2) and <= as Python compares tuples.
YqLt(y1, q1, y2, q2) == y1 < y2 \/ (y1 = y2 /\ q1 < q2)
_yq_le(y1, q1, y2, q2) == YqLt(y1, q1, y2, q2) \/ (y1 = y2 /\ q1 = q2)
_in_yq_range(y, q, y1, q1, y2, q2) == _yq_le(y1, q1, y, q) /\ _yq_le(y, q, y2, q2)

\* The store's `order=year.desc,quarter.desc`: descending, nulls first.
DescKey(r) == r.year * 10 + (IF r.quarter = NullInt THEN 9 ELSE r.quarter)
NewestFirst(t) == \A i \in 1..(Len(t) - 1) : DescKey(t[i]) >= DescKey(t[i + 1])

TrendTables ==
    { t \in UNION { [1..k -> TrendRows] : k \in 0..MaxRows } : NewestFirst(t) }

_session_in_assemblies_any(session, assemblies) ==
    \/ assemblies = {}
    \/ session # NullInt

\* _session_in_assemblies: no assembly list lets every row pass; else the
\* session must lie in the range of one of the listed assemblies.
_session_in_assemblies(session, assemblies) ==
    \/ assemblies = {}
    \/ /\ session # NullInt
       /\ \/ 20 \in assemblies /\ 353 <= session /\ session <= 378
          \/ 21 \in assemblies /\ 379 <= session /\ session <= 414
          \/ 22 \in assemblies /\ 415 <= session

_prev_quarter_no_rollover(yq) ==
    IF yq[2] - 1 <= 0 THEN <<yq[1], 4>> ELSE <<yq[1], yq[2] - 1>>

\* _prev_quarter: one quarter back, quarter 1 to quarter 4 of the year before.
_prev_quarter(yq) ==
    IF yq[2] - 1 <= 0 THEN <<yq[1] - 1, 4>> ELSE <<yq[1], yq[2] - 1>>

RECURSIVE _shift_back_quarters(_, _)
_shift_back_quarters(yq, n_back) ==
    IF n_back <= 0 THEN yq ELSE _shift_back_quarters(_prev_quarter(yq), n_back - 1)

\* The category filters sent to the store: the label_l2 and label_l3 parameters
\* built from group_by, l2_in, l2_eq and l3_in (an empty set: no parameter).
CategoryParams(req) ==
    IF req.group_by = "l2"
    THEN [label_l2 |-> req.l2_in, label_l3 |-> {}]
    ELSE [label_l2 |-> IF req.l2_eq = None THEN {} ELSE {req.l2_eq},
          label_l3 |-> req.l3_in]

\* The store's answer to one GET on trend2: the rows passing the column
\* filters, in the table's order, from `offset`, at most `limit` of them.
StoreFilter(t, cat, year_lte, quarter_not_null) ==
    SelectSeq(t, LAMBDA r :
        /\ r.year # NullInt
        /\ year_lte # NullInt => r.year <= year_lte
        /\ quarter_not_null => r.quarter # NullInt
        /\ cat.label_l2 # {} => r.label_l2 \in cat.label_l2
        /\ cat.label_l3 # {} => r.label_l3 \in cat.label_l3)

Window(rows, offset, limit) ==
    SubSeq(rows, offset + 1, Min(Len(rows), offset + limit))

\* The label a row is counted under; Unclassified stands for the code's
\* Korean default label of a row without one.
Unclassified == "unclassified"
LabelOf(r, group_by) ==
    LET v == IF group_by = "l3" THEN r.label_l3 ELSE r.label_l2
    IN IF v = None THEN Unclassified ELSE v

\* One pass of the page loop's body over the rows of a page, from row i on:
\* the counts after it, and whether the stop signal was met.
RECURSIVE CountPage(_, _, _, _)
CountPage(page, i, agg, req) ==
    IF i > Len(page) THEN [agg |-> agg, stop |-> FALSE]
    ELSE LET r == page[i]
             y == r.year
             q == r.quarter
             key == <<y, q, LabelOf(r, req.group_by)>>
         IN IF y = NullInt \/ q = NullInt
                THEN CountPage(page, i + 1, agg, req)
            ELSE IF YqLt(y, q, req.y1, req.q1)
                THEN [agg |-> agg, stop |-> TRUE]
            ELSE IF YqLt(req.y2, req.q2, y, q)
                THEN CountPage(page, i + 1, agg, req)
            ELSE IF ~_session_in_assemblies(r.session, req.assemblies)
                THEN CountPage(page, i + 1, agg, req)
            ELSE IF ~_in_yq_range(y, q, req.y1, req.q1, req.y2, req.q2)
                THEN CountPage(page, i + 1, agg, req)
            ELSE CountPage(page, i + 1,
                    IF key \in DOMAIN agg
                    THEN [agg EXCEPT ![key] = @ + 1]
                    ELSE agg @@ (key :> 1),
                    req)

\* The order of labels as strings, and of output entries by (period, label).
LabelRank(l) == CASE l = "A" -> 1 [] l = "B" -> 2 [] l = "a" -> 3 [] OTHER -> 4
EntryLt(a, b) ==
    \/ YqLt(a.period[1], a.period[2], b.period[1], b.period[2])
    \/ a.period = b.period /\ LabelRank(a.label) < LabelRank(b.label)

RECURSIVE SortEntries(_)
SortEntries(S) ==
    IF S = {} THEN <<>>
    ELSE LET m == CHOOSE e \in S : \A o \in S \ {e} : EntryLt(e, o)
         IN <<m>> \o SortEntries(S \ {m})

\* `out`: one {period, label, count} per key of agg, sorted by (period, label).
SeriesOut(agg) ==
    SortEntries({ [period |-> <<k[1], k[2]>>, label |-> k[3], count |-> agg[k]]
                  : k \in DOMAIN agg })

EmptyAgg == [k \in {} |-> 0]

\* The requests tried.  recent_n_quarters = 0 stands for an absent one; an
\* explicit range with a part missing has start = end = <<NullInt, NullInt>>.
TrendRanges ==
    { <<<<2024, 4>>, <<2025, 2>>>>, <<<<2025, 1>>, <<2025, 2>>>>,
      <<<<2025, 1>>, <<2025, 1>>>>, <<<<2025, 2>>, <<2024, 4>>>> }
RecentChoices == {-1, 1, 2, 4}
TrendFilters ==
    { [group_by |-> "l2", l2_in |-> {}, l2_eq |-> None, l3_in |-> {}],
      [group_by |-> "l2", l2_in |-> {"A"}, l2_eq |-> None, l3_in |-> {}],
      [group_by |-> "l3", l2_in |-> {}, l2_eq |-> "A", l3_in |-> {"a"}] }
TrendAssemblies == {{}, {22}}
TrendPeriodInputs ==
    { [recent_n_quarters |-> n, start |-> <<NullInt, NullInt>>,
       end |-> <<NullInt, NullInt>>] : n \in RecentChoices }
    \cup
    { [recent_n_quarters |-> 0, start |-> r[1], end |-> r[2]] : r \in TrendRanges }
    \cup
    { [recent_n_quarters |-> 0, start |-> <<NullInt, NullInt>>,
       end |-> <<2025, 2>>] }

TrendInit ==
    /\ client = Off /\ snip = Off /\ speech = Off
    /\ law = Off /\ meta = Off /\ news = Off /\ ui = Off
    /\ \E t \in TrendTables, f \in TrendFilters, a \in TrendAssemblies,
          p \in TrendPeriodInputs, ps \in PageSizes :
         trend = [pc |-> "start", impl |-> "router", table |-> t,
                  start_ord |-> 0, end_ord |-> 0,
                  group_by |-> f.group_by, l2_in |-> f.l2_in, l2_eq |-> f.l2_eq,
                  l3_in |-> f.l3_in, assemblies |-> a,
                  recent_n_quarters |-> p.recent_n_quarters,
                  start |-> p.start, end |-> p.end, page_size |-> ps,
                  y1 |-> NullInt, q1 |-> NullInt, y2 |-> NullInt, q2 |-> NullInt,
                  offset |-> 0, pages |-> 0, agg |-> EmptyAgg, stop |-> FALSE,
                  out |-> <<>>, chart |-> [empty |-> TRUE, x |-> <<>>, lines |-> <<>>]]

\* The handler up to its first await: with recent_n_quarters it goes to the
\* probe; else it takes the explicit range, swapped when reversed, or returns
\* [] when a part of the range is missing.
SeriesStart ==
    /\ trend.pc = "start" /\ trend.impl = "router"
    /\ IF trend.recent_n_quarters # 0
       THEN trend' = [trend EXCEPT !.pc = "probe"]
       ELSE IF NullInt \in {trend.start[1], trend.start[2], trend.end[1], trend.end[2]}
       THEN trend' = [trend EXCEPT !.pc = "done", !.out = <<>>]
       ELSE IF ~_yq_le(trend.start[1], trend.start[2], trend.end[1], trend.end[2])
       THEN trend' = [trend EXCEPT !.pc = "page",
                        !.y1 = trend.end[1], !.q1 = trend.end[2],
                        !.y2 = trend.start[1], !.q2 = trend.start[2]]
       ELSE trend' = [trend EXCEPT !.pc = "page",
                        !.y1 = trend.start[1], !.q1 = trend.start[2],
                        !.y2 = trend.end[1], !.q2 = trend.end[2]]
    /\ UNCHANGED <<client, snip, speech, law, meta, news, ui>>

\* The rows of the probe that pass the assembly filter and have a year and a
\* quarter; the first of them sets the anchor.
ProbeHits(probe, assemblies) ==
    SelectSeq(probe, LAMBDA r :
        /\ _session_in_assemblies(r.session, assemblies)
        /\ r.year # NullInt /\ r.quarter # NullInt)

\* The probe's answer: the anchor (y2, q2) is the first probed row passing the
\* assembly filter; the start is n - 1 quarters before it.
SeriesProbe ==
    /\ trend.pc = "probe"
    /\ LET probe == Window(StoreFilter(trend.table, CategoryParams(trend), NullInt, TRUE),
                           0, ProbeLimit)
           hits == ProbeHits(probe, trend.assemblies)
           n == Max(1, trend.recent_n_quarters)
       IN IF hits = <<>>
          THEN trend' = [trend EXCEPT !.pc = "done", !.out = <<>>]
          ELSE LET yq2 == <<hits[1].year, hits[1].quarter>>
                   yq1 == _shift_back_quarters(yq2, n - 1)
               IN trend' = [trend EXCEPT !.pc = "page",
                                !.y1 = yq1[1], !.q1 = yq1[2],
                                !.y2 = yq2[1], !.q2 = yq2[2]]
    /\ UNCHANGED <<client, snip, speech, law, meta, news, ui>>

\* One turn of the page loop: the GET of a page, the counting of its rows, and
\* the loop's exits (empty page, stop signal, short page), after which the
\* sorted output is returned.
SeriesPage ==
    /\ trend.pc = "page"
    /\ LET page == Window(StoreFilter(trend.table, CategoryParams(trend), trend.y2, FALSE),
                          trend.offset, trend.page_size)
           res == CountPage(page, 1, trend.agg, trend)
       IN IF page = <<>>
          THEN trend' = [trend EXCEPT !.pc = "done", !.pages = @ + 1,
                            !.out = SeriesOut(trend.agg)]
          ELSE IF res.stop \/ Len(page) < trend.page_size
          THEN trend' = [trend EXCEPT !.pc = "done", !.pages = @ + 1,
                            !.agg = res.agg, !.stop = res.stop,
                            !.out = SeriesOut(res.agg)]
          ELSE trend' = [trend EXCEPT !.pages = @ + 1, !.agg = res.agg,
                            !.offset = @ + trend.page_size]
    /\ UNCHANGED <<client, snip, speech, law, meta, news, ui>>

RECURSIVE SortPeriods(_)
SortPeriods(S) ==
    IF S = {} THEN <<>>
    ELSE LET m == CHOOSE e \in S : \A o \in S \ {e} : YqLt(e[1], e[2], o[1], o[2])
         IN <<m>> \o SortPeriods(S \ {m})

RECURSIVE SortLabels(_)
SortLabels(S) ==
    IF S = {} THEN <<>>
    ELSE LET m == CHOOSE e \in S : \A o \in S \ {e} : LabelRank(e) < LabelRank(o)
         IN <<m>> \o SortLabels(S \ {m})

\* byLabel.get(l).get(p) ?? 0: the count of the row of label l and period p,
\* the last such row winning, and 0 when there is none.
CountAt(rows, l, p) ==
    LET at == { i \in DOMAIN rows : rows[i].label = l /\ rows[i].period = p }
    IN IF at = {} THEN 0
       ELSE rows[CHOOSE i \in at : \A j \in at : j <= i].count

\* renderTrend2Line: the x axis holds the periods that occur in the rows, and
\* each label gets one line with a value for every period of the x axis.
Trend2Chart(rows) ==
    LET periods == SortPeriods({ rows[i].period : i \in DOMAIN rows })
        labels == SortLabels({ rows[i].label : i \in DOMAIN rows })
    IN [ empty |-> rows = <<>>,
         x |-> periods,
         lines |-> [ j \in DOMAIN labels |->
                       [ name |-> labels[j],
                         y |-> [ k \in DOMAIN periods |->
                                   CountAt(rows, labels[j], periods[k]) ] ] ] ]

\* loadTrend2 after the fetch: the chart is drawn from the rows received.
RenderTrend2Line ==
    /\ trend.pc = "done"
    /\ trend' = [trend EXCEPT !.pc = "rendered", !.chart = Trend2Chart(trend.out)]
    /\ UNCHANGED <<client, snip, speech, law, meta, news, ui>>

TrendNext ==
    \/ SeriesStart
    \/ SeriesProbe
    \/ SeriesPage
    \/ RenderTrend2Line

SpecTrend == TrendInit /\ [][TrendNext]_vars

(***************************************************************************)
(* main.py's own /api/trend2/series, which resolves the range in quarter   *)
(* ordinals from the table's earliest and latest quarter                   *)
(***************************************************************************)

\* Bound: the rows of the table in the runs that resolve recent_n_quarters.
MaxRecentRows == 2

\* The session range of each assembly (main.py's ASSEMBLY_SESSION_RANGES).
ASSEMBLY_SESSION_RANGES(a) ==
    CASE a = 20 -> <<353, 378>>
      [] a = 21 -> <<379, 414>>
      [] a = 22 -> <<415, 1000000000>>

MainLimit == 50000

_quarter_ordinal(y, q) == y * 4 + q

_in_ordinal_range(y, q, start_ord, end_ord) ==
    start_ord <= _quarter_ordinal(y, q) /\ _quarter_ordinal(y, q) <= end_ord

\* The (year, quarter) pairs api_trend2_options keeps: integers, quarter 1..4.
ValidYq(t) ==
    { <<t[i].year, t[i].quarter>> : i \in { j \in DOMAIN t :
        t[j].year # NullInt /\ t[j].quarter # NullInt
        /\ 1 <= t[j].quarter /\ t[j].quarter <= 4 } }

MinOrd(t) ==
    LET m == CHOOSE a \in ValidYq(t) : \A b \in ValidYq(t) :
                _quarter_ordinal(a[1], a[2]) <= _quarter_ordinal(b[1], b[2])
    IN _quarter_ordinal(m[1], m[2])

MaxOrd(t) ==
    LET m == CHOOSE a \in ValidYq(t) : \A b \in ValidYq(t) :
                _quarter_ordinal(a[1], a[2]) >= _quarter_ordinal(b[1], b[2])
    IN _quarter_ordinal(m[1], m[2])

\* The range main.py resolves: <<start_ord, end_ord>>, or <<0, 0>> for the
\* "quarter must be 1..4" rejection of an explicit range.
MainRange(req, min_ord, max_ord, min_yq, max_yq) ==
    IF req.recent_n_quarters > 0
    THEN LET start_ord == max_ord - req.recent_n_quarters + 1
         IN <<IF start_ord < min_ord THEN min_ord ELSE start_ord, max_ord>>
    ELSE LET sy == IF req.start[1] # NullInt THEN req.start[1] ELSE min_yq[1]
             sq == IF req.start[2] # NullInt THEN req.start[2] ELSE min_yq[2]
             ey == IF req.end[1] # NullInt THEN req.end[1] ELSE max_yq[1]
             eq == IF req.end[2] # NullInt THEN req.end[2] ELSE max_yq[2]
             so == _quarter_ordinal(sy, sq)
             eo == _quarter_ordinal(ey, eq)
         IN IF ~(1 <= sq /\ sq <= 4 /\ 1 <= eq /\ eq <= 4) THEN <<0, 0>>
            ELSE IF so > eo THEN <<eo, so>> ELSE <<so, eo>>

\* _build_postgrest_or_for_assemblies: the store keeps a row whose session lies
\* in the range of one of the listed assemblies; no filter for an empty list.
MainSessionFilter(r, assemblies) ==
    \/ assemblies = {}
    \/ \E a \in assemblies :
          /\ r.session # NullInt
          /\ ASSEMBLY_SESSION_RANGES(a)[1] <= r.session
          /\ r.session <= ASSEMBLY_SESSION_RANGES(a)[2]

\* The one GET of main.py's series: the year cut start_ord // 4 .. end_ord // 4,
\* the assembly filter and the category filters.
MainStoreRows(t, req, start_ord, end_ord) ==
    LET cat == CategoryParams(req)
        kept == SelectSeq(t, LAMBDA r :
                    /\ r.year # NullInt
                    /\ r.year >= start_ord \div 4
                    /\ r.year <= end_ord \div 4
                    /\ MainSessionFilter(r, req.assemblies)
                    /\ cat.label_l2 # {} => r.label_l2 \in cat.label_l2
                    /\ cat.label_l3 # {} => r.label_l3 \in cat.label_l3)
    IN Window(kept, 0, Min(Max(MainLimit, 1000), 50000))

RECURSIVE MainCount(_, _, _, _)
MainCount(rows, i, agg, req) ==
    IF i > Len(rows) THEN agg
    ELSE LET r == rows[i]
             key == <<r.year, r.quarter, LabelOf(r, req.group_by)>>
         IN IF r.year = NullInt \/ r.quarter = NullInt
               \/ ~(1 <= r.quarter /\ r.quarter <= 4)
                THEN MainCount(rows, i + 1, agg, req)
            ELSE IF ~_in_ordinal_range(r.year, r.quarter, req.start_ord, req.end_ord)
                THEN MainCount(rows, i + 1, agg, req)
            ELSE MainCount(rows, i + 1,
                    IF key \in DOMAIN agg
                    THEN [agg EXCEPT ![key] = @ + 1]
                    ELSE agg @@ (key :> 1),
                    req)

\* main.py sorts its output by (period, -count, label).
MainEntryLt(a, b) ==
    \/ YqLt(a.period[1], a.period[2], b.period[1], b.period[2])
    \/ a.period = b.period /\ a.count > b.count
    \/ a.period = b.period /\ a.count = b.count
            /\ LabelRank(a.label) < LabelRank(b.label)

RECURSIVE MainSortEntries(_)
MainSortEntries(S) ==
    IF S = {} THEN <<>>
    ELSE LET m == CHOOSE e \in S : \A o \in S \ {e} : MainEntryLt(e, o)
         IN <<m>> \o MainSortEntries(S \ {m})

\* api_trend2_options, awaited first: without a valid (year, quarter) in the
\* table the series is []; else the range is resolved.
MainOptions ==
    /\ trend.pc = "start" /\ trend.impl = "main"
    /\ IF ValidYq(trend.table) = {}
       THEN trend' = [trend EXCEPT !.pc = "done", !.out = <<>>]
       ELSE LET min_ord == MinOrd(trend.table)
                max_ord == MaxOrd(trend.table)
                min_yq == CHOOSE a \in ValidYq(trend.table) :
                            _quarter_ordinal(a[1], a[2]) = min_ord
                max_yq == CHOOSE a \in ValidYq(trend.table) :
                            _quarter_ordinal(a[1], a[2]) = max_ord
                range == MainRange(trend, min_ord, max_ord, min_yq, max_yq)
            IN IF range = <<0, 0>>
               THEN trend' = [trend EXCEPT !.pc = "failed"]
               ELSE trend' = [trend EXCEPT !.pc = "main_fetch",
                                !.start_ord = range[1], !.end_ord = range[2]]
    /\ UNCHANGED <<client, snip, speech, law, meta, news, ui>>

\* The GET of the rows and their count by (period, label).
MainSeries ==
    /\ trend.pc = "main_fetch"
    /\ LET rows == MainStoreRows(trend.table, trend, trend.start_ord, trend.end_ord)
           agg == MainCount(rows, 1, EmptyAgg, trend)
       IN trend' = [trend EXCEPT !.pc = "done", !.pages = 1, !.agg = agg,
                        !.out = MainSortEntries(
                            { [period |-> <<k[1], k[2]>>, label |-> k[3],
                               count |-> agg[k]] : k \in DOMAIN agg })]
    /\ UNCHANGED <<client, snip, speech, law, meta, news, ui>>

\* The runs that resolve recent_n_quarters, by either implementation.
RecentPeriods == {<<2024, 3>>, <<2024, 4>>, <<2025, 1>>, <<2025, 2>>}
RecentRows ==
    { [year |-> p[1], quarter |-> p[2], session |-> s,
       label_l2 |-> "A", label_l3 |-> "a"]
      : p \in RecentPeriods, s \in {378, 415} }
RecentTables ==
    { t \in UNION { [1..k -> RecentRows] : k \in 0..MaxRecentRows } : NewestFirst(t) }
RecentN == {-1, 1, 2, 3, 4, 5, 8}

RecentInit ==
    /\ client = Off /\ snip = Off /\ speech = Off
    /\ law = Off /\ meta = Off /\ news = Off /\ ui = Off
    /\ \E t \in RecentTables, a \in TrendAssemblies, n \in RecentN,
          impl \in {"router", "main"} :
         trend = [pc |-> "start", impl |-> impl, table |-> t,
                  start_ord |-> 0, end_ord |-> 0,
                  group_by |-> "l2", l2_in |-> {}, l2_eq |-> None,
                  l3_in |-> {}, assemblies |-> a,
                  recent_n_quarters |-> n,
                  start |-> <<NullInt, NullInt>>, end |-> <<NullInt, NullInt>>,
                  page_size |-> 2,
                  y1 |-> NullInt, q1 |-> NullInt, y2 |-> NullInt, q2 |-> NullInt,
                  offset |-> 0, pages |-> 0, agg |-> EmptyAgg, stop |-> FALSE,
                  out |-> <<>>, chart |-> [empty |-> TRUE, x |-> <<>>, lines |-> <<>>]]

RecentNext ==
    \/ SeriesStart
    \/ SeriesProbe
    \/ SeriesPage
    \/ MainOptions
    \/ MainSeries
    \/ RenderTrend2Line

SpecRecent == RecentInit /\ [][RecentNext]_vars

\* The quarters of a calendar, in order: 4 to a year.
QuarterIndex(y, q) == 4 * y + (q - 1)

\* The rows of the table one output entry stands for: those passing the
\* category filters and the assembly check, dated in the quarter p within the
\* resolved range, and carrying the label l.
MatchingRows(p, l) ==
    { i \in DOMAIN trend.table :
        LET r == trend.table[i]
            cat == CategoryParams(trend)
        IN /\ r.year = p[1] /\ r.quarter = p[2] /\ r.quarter \in 1..4
           /\ cat.label_l2 # {} => r.label_l2 \in cat.label_l2
           /\ cat.label_l3 # {} => r.label_l3 \in cat.label_l3
           /\ QuarterIndex(trend.y1, trend.q1) <= QuarterIndex(r.year, r.quarter)
           /\ QuarterIndex(r.year, r.quarter) <= QuarterIndex(trend.y2, trend.q2)
           /\ \/ trend.assemblies = {}
              \/ \E a \in trend.assemblies :
                    /\ ASSEMBLY_SESSION_RANGES(a)[1] <= r.session
                    /\ r.session <= ASSEMBLY_SESSION_RANGES(a)[2]
           /\ LabelOf(r, trend.group_by) = l }

SeriesReturned == trend.pc \in {"done", "rendered"} /\ trend.y1 # NullInt

\* C3: once the series is returned, each (period, label) with matching rows has
\* exactly one entry, whose count is the number of those rows, and no other
\* entry exists, whatever the page size and wherever the stop signal fell.
C3_CountsAreMatchingRows ==
    SeriesReturned =>
        /\ \A i \in DOMAIN trend.out :
              /\ trend.out[i].count =
                    Cardinality(MatchingRows(trend.out[i].period, trend.out[i].label))
              /\ trend.out[i].count > 0
              /\ \A j \in DOMAIN trend.out :
                    (trend.out[j].period = trend.out[i].period
                        /\ trend.out[j].label = trend.out[i].label) => j = i
        /\ \A p \in TrendPeriods, l \in {"A", "a", Unclassified} :
              MatchingRows(p, l) # {} =>
                  \E i \in DOMAIN trend.out :
                      trend.out[i].period = p /\ trend.out[i].label = l

C3_Witness ==
    /\ trend.pc = "done" /\ trend.stop /\ trend.pages = 2 /\ trend.page_size = 2
    /\ trend.assemblies = {22}
    /\ Len(trend.table) = 3
    /\ \E i \in DOMAIN trend.out : trend.out[i].count = 2

\* The quarters of the resolved range [start, end].
QuartersInRange ==
    { p \in (trend.y1..trend.y2) \X (1..4) :
        /\ QuarterIndex(trend.y1, trend.q1) <= QuarterIndex(p[1], p[2])
        /\ QuarterIndex(p[1], p[2]) <= QuarterIndex(trend.y2, trend.q2) }

\* C5 as stated: in the chart drawn from a series with rows, every quarter of
\* the requested range is on the x axis, and every label has a value there
\* (0 where the quarter has no rows).
C5_EveryQuarterOnAxis ==
    (trend.pc = "rendered" /\ trend.y1 # NullInt /\ ~trend.chart.empty) =>
        \A p \in QuartersInRange :
            \E k \in DOMAIN trend.chart.x :
                /\ trend.chart.x[k] = p
                /\ \A j \in DOMAIN trend.chart.lines :
                      trend.chart.lines[j].y[k] =
                          Cardinality(MatchingRows(p, trend.chart.lines[j].name))


\* The request asked for the most recent n quarters, n >= 1, and the handler
\* has resolved its range.
RouterResolved ==
    /\ trend.impl = "router" /\ trend.recent_n_quarters >= 1
    /\ trend.pc \in {"page", "done", "rendered"} /\ trend.y1 # NullInt

MainResolved ==
    /\ trend.impl = "main" /\ trend.recent_n_quarters >= 1
    /\ trend.pc \in {"main_fetch", "done", "rendered"} /\ trend.end_ord # 0

\* routers/trend.py: the start is a quarter 1..4, n - 1 calendar quarters
\* before the anchor, the year rolling over from Q1 to Q4 of the year before.
RouterSpansN ==
    RouterResolved =>
        /\ trend.q1 \in 1..4 /\ trend.q2 \in 1..4
        /\ QuarterIndex(trend.y2, trend.q2) - QuarterIndex(trend.y1, trend.q1)
              = trend.recent_n_quarters - 1
        /\ (trend.recent_n_quarters = 4 /\ trend.y2 = 2025 /\ trend.q2 = 1)
              => (trend.y1 = 2024 /\ trend.q1 = 2)

MaxSents == 10

window == 2
max_sent == 5

\* sents[start_i:end_i]
Slice(start_i, end_i) ==
    [j \in 1..Max(0, end_i - start_i) |-> start_i + j - 1]

\* The first sentence the pattern is found in, 0-based; NullInt for none.
FirstHit(sents) ==
    IF \E j \in DOMAIN sents : sents[j]
    THEN (CHOOSE j \in DOMAIN sents : sents[j] /\ \A h \in 1..(j - 1) : ~sents[h]) - 1
    ELSE NullInt

_make_snippet_no_reanchor(sents, kw) ==
    LET idx == FirstHit(sents)
        start_i == Max(0, idx - window)
        end_i == Min(Len(sents), start_i + max_sent)
    IN IF sents = <<>> \/ kw = ""
            THEN [clip |-> Slice(0, Len(sents)), truncated |-> FALSE]
       ELSE IF idx = NullInt
            THEN [clip |-> Slice(0, Min(Len(sents), max_sent)),
                  truncated |-> Len(sents) > max_sent]
       ELSE [clip |-> Slice(start_i, end_i),
             truncated |-> start_i > 0 \/ end_i < Len(sents)]

_make_snippet(sents, kw) ==
    LET idx == FirstHit(sents)
        start_0 == Max(0, idx - window)
        end_i == Min(Len(sents), start_0 + max_sent)
        start_i == Max(0, end_i - max_sent)
    IN IF sents = <<>> \/ kw = ""
            THEN [clip |-> Slice(0, Len(sents)), truncated |-> FALSE]
       ELSE IF idx = NullInt
            THEN [clip |-> Slice(0, Min(Len(sents), max_sent)),
                  truncated |-> Len(sents) > max_sent]
       ELSE [clip |-> Slice(start_i, end_i),
             truncated |-> start_i > 0 \/ end_i < Len(sents)]

SnippetTexts == UNION { [1..k -> BOOLEAN] : k \in 0..MaxSents }

SnippetInit ==
    /\ client = Off /\ trend = Off /\ speech = Off
    /\ law = Off /\ meta = Off /\ news = Off /\ ui = Off
    /\ \E t \in SnippetTexts, kw \in {"", "kw"} :
         snip = [pc |-> "start", sents |-> t, kw |-> kw,
                 clip |-> <<>>, truncated |-> FALSE]

MakeSnippet ==
    /\ snip.pc = "start"
    /\ LET r == _make_snippet(snip.sents, snip.kw)
       IN snip' = [snip EXCEPT !.pc = "done", !.clip = r.clip,
                               !.truncated = r.truncated]
    /\ UNCHANGED <<client, trend, speech, law, meta, news, ui>>

SnippetNext == MakeSnippet

SpecSnippet == SnippetInit /\ [][SnippetNext]_vars

\* C8: for a text of k sentences whose first keyword-bearing sentence is at
\* index i, the snippet is the contiguous window of min(k, 5) sentences that
\* starts at max(0, min(i - 2, k - 5)); it contains sentence i; and
\* snippet_truncated is true exactly when a sentence of the text is left out.
\* k = 10, i = 7 gives sentences 5..9 with snippet_truncated true.
C8_SnippetWindow ==
    (snip.pc = "done" /\ snip.kw # "" /\ FirstHit(snip.sents) # NullInt) =>
        LET k == Len(snip.sents)
            i == FirstHit(snip.sents)
            first == IF i - 2 < k - 5 THEN i - 2 ELSE k - 5
            from == IF first < 0 THEN 0 ELSE first
            n == IF k < 5 THEN k ELSE 5
        IN /\ Len(snip.clip) = n
           /\ \A j \in 1..n : snip.clip[j] = from + j - 1
           /\ \E j \in 1..n : snip.clip[j] = i
           /\ snip.truncated <=> (\E h \in 0..(k - 1) :
                                    \A j \in 1..n : snip.clip[j] # h)
           /\ (k = 10 /\ i = 7) => (snip.clip = <<5, 6, 7, 8, 9>> /\ snip.truncated)

\* The claim's example is reached: 10 sentences, the keyword first in sentence 7.
C8_Witness ==
    /\ snip.pc = "done" /\ snip.kw # ""
    /\ Len(snip.sents) = 10 /\ FirstHit(snip.sents) = 7
    /\ snip.clip = <<5, 6, 7, 8, 9>> /\ snip.truncated


(***************************************************************************)
(* routers/speech.py: /api/speech/search.  A string is the sequence of its *)
(* characters; an optional query parameter is a record telling whether it  *)
(* was given.  The table holds the speeches whose text matches the keyword,*)
(* newest first, as runs of n rows of one date.                            *)
(***************************************************************************)

\* Bound: the runs (distinct dates) of the table.
MaxRuns == 3
\* Bound: the requests of one "load more" session.
MaxRequests == 3

PAGE_SIZE == 1000
MAX_AGG_ROWS == 300000
MAX_SPEECH_ROWS == 20000
MAX_WIDGET_ROWS == 120000
LIMIT_LE == 5000

Digits == {"0", "1", "2", "3", "4", "5", "6", "7", "8", "9"}

\* The code point of a character, for the order of Python's str comparison.
Code(c) ==
    CASE c = "-" -> 45 [] c = "/" -> 47
      [] c = "0" -> 48 [] c = "1" -> 49 [] c = "2" -> 50 [] c = "3" -> 51
      [] c = "4" -> 52 [] c = "5" -> 53 [] c = "6" -> 54 [] c = "7" -> 55
      [] c = "8" -> 56 [] c = "9" -> 57

DigitOf(n) == CHOOSE c \in Digits : Code(c) = 48 + n

\* a <= b for two strings.
RECURSIVE StrLe(_, _)
StrLe(a, b) ==
    IF a = <<>> THEN TRUE
    ELSE IF b = <<>> THEN FALSE
    ELSE IF Code(Head(a)) # Code(Head(b)) THEN Code(Head(a)) < Code(Head(b))
    ELSE StrLe(Tail(a), Tail(b))

Absent == [given |-> FALSE, s |-> <<>>]
Given(s) == [given |-> TRUE, s |-> s]

\* re.fullmatch(r"\d{4}-\d{2}-\d{2}", s)
DatePatternAny(s) == TRUE

DatePattern(s) ==
    /\ Len(s) = 10
    /\ \A i \in {1, 2, 3, 4, 6, 7, 9, 10} : s[i] \in Digits
    /\ s[5] = "-" /\ s[8] = "-"

\* _validate_date: "none" for an absent or empty value, "bad" for the 400,
\* else the value is kept.
_validate_date(p) ==
    IF ~p.given \/ p.s = <<>> THEN "none"
    ELSE IF ~DatePattern(p.s) THEN "bad"
    ELSE "ok"

Num(s, i, j) ==
    LET RECURSIVE N(_, _)
        N(k, acc) == IF k > j THEN acc ELSE N(k + 1, acc * 10 + (Code(s[k]) - 48))
    IN N(i, 0)

YearOf(s) == Num(s, 1, 4)
MonthOf(s) == Num(s, 6, 7)
DayOf(s) == Num(s, 9, 10)

IsLeap(y) == (y % 4 = 0 /\ y % 100 # 0) \/ y % 400 = 0

DaysIn(y, m) ==
    IF m \in {4, 6, 9, 11} THEN 30
    ELSE IF m = 2 THEN (IF IsLeap(y) THEN 29 ELSE 28)
    ELSE 31

\* datetime.strptime(s, "%Y-%m-%d") succeeds on a string of the date pattern.
Strptime(s) ==
    /\ YearOf(s) >= 1
    /\ MonthOf(s) \in 1..12
    /\ DayOf(s) >= 1 /\ DayOf(s) <= DaysIn(YearOf(s), MonthOf(s))

\* strftime("%Y-%m")
YearMonth(y, m) ==
    <<DigitOf(y \div 1000), DigitOf((y \div 100) % 10), DigitOf((y \div 10) % 10),
      DigitOf(y % 10), "-", DigitOf(m \div 10), DigitOf(m % 10)>>

\* _month_range keeping only the first and the last month.
_month_range_ends_only(start_ymd, end_ymd) ==
    LET s == <<YearOf(start_ymd), MonthOf(start_ymd)>>
        e == <<YearOf(end_ymd), MonthOf(end_ymd)>>
    IN IF YqLt(e[1], e[2], s[1], s[2]) THEN <<>>
       ELSE IF s = e THEN <<YearMonth(s[1], s[2])>>
       ELSE <<YearMonth(s[1], s[2]), YearMonth(e[1], e[2])>>

\* _month_range: the months from the month of start_ymd to the month of
\* end_ymd, both parsed by strptime.
_month_range(start_ymd, end_ymd) ==
    LET e == <<YearOf(end_ymd), MonthOf(end_ymd)>>
        RECURSIVE Months(_)
        Months(cur) ==
            IF YqLt(e[1], e[2], cur[1], cur[2]) THEN <<>>
            ELSE <<YearMonth(cur[1], cur[2])>>
                 \o Months(IF cur[2] = 12 THEN <<cur[1] + 1, 1>>
                           ELSE <<cur[1], cur[2] + 1>>)
    IN Months(<<YearOf(start_ymd), MonthOf(start_ymd)>>)


D_2024_12_31 == <<"2", "0", "2", "4", "-", "1", "2", "-", "3", "1">>
D_2025_01_15 == <<"2", "0", "2", "5", "-", "0", "1", "-", "1", "5">>
D_2025_03_10 == <<"2", "0", "2", "5", "-", "0", "3", "-", "1", "0">>
D_2025_03_31 == <<"2", "0", "2", "5", "-", "0", "3", "-", "3", "1">>
D_2025_02_30 == <<"2", "0", "2", "5", "-", "0", "2", "-", "3", "0">>
D_slashes == <<"2", "0", "2", "5", "/", "0", "1", "/", "1", "5">>
D_short == <<"2", "0", "2", "5", "-", "1", "-", "5">>

SpeechDates == {D_2024_12_31, D_2025_01_15, D_2025_03_10}
RunSizes == {1, 1000, 25000}

\* The tables: runs of rows of one date, the dates strictly descending
\* (order=date.desc,speech_order.desc).
SpeechTables ==
    { t \in UNION { [1..k -> [date : SpeechDates, n : RunSizes]] : k \in 0..MaxRuns } :
        \A i \in 1..(Len(t) - 1) :
            t[i].date # t[i + 1].date /\ StrLe(t[i + 1].date, t[i].date) }

RECURSIVE Total(_)
Total(runs) == IF runs = <<>> THEN 0 ELSE Head(runs).n + Total(Tail(runs))

\* The rows the store keeps for date=gte.start, newest first.
StoreRuns(t, start) == SelectSeq(t, LAMBDA r : StrLe(start, r.date))

\* The rows of the store's answer dated after end: in the newest-first order
\* they are the positions 0 .. RowsAfter - 1.
RowsAfter(runs, end) ==
    IF end = <<>> THEN 0
    ELSE Total(SelectSeq(runs, LAMBDA r : ~StrLe(r.date, end)))

RECURSIVE CollectedLen(_)
CollectedLen(c) ==
    IF c = <<>> THEN 0 ELSE (Head(c)[2] - Head(c)[1]) + CollectedLen(Tail(c))

\* collected[:n], on intervals <<lo, hi>> of positions lo .. hi - 1.
RECURSIVE Truncate(_, _)
Truncate(c, n) ==
    IF c = <<>> \/ n <= 0 THEN <<>>
    ELSE LET len == Head(c)[2] - Head(c)[1]
         IN IF len >= n THEN << <<Head(c)[1], Head(c)[1] + n>> >>
            ELSE <<Head(c)>> \o Truncate(Tail(c), n - len)

\* limit: int = Query(200, ge=1, le=5000), without the upper bound.
LimitAcceptedNoLe(limit) == limit >= 1

LimitAccepted(limit) == limit >= 1 /\ limit <= LIMIT_LE

NoPaged == [offset |-> 0, out |-> 0, pages |-> 0, truncated |-> FALSE, done |-> FALSE]

\* _paged_select_all asking for the same offset again after a full page.
_paged_select_all_same_offset(st, total, hard_cap) ==
    LET rows == Max(0, Min(PAGE_SIZE, total - st.offset))
        out == st.out + rows
    IN IF rows = 0
            THEN [st EXCEPT !.pages = @ + 1, !.done = TRUE]
       ELSE IF rows < PAGE_SIZE
            THEN [st EXCEPT !.pages = @ + 1, !.out = out, !.done = TRUE]
       ELSE IF out >= hard_cap
            THEN [st EXCEPT !.pages = @ + 1, !.out = hard_cap,
                            !.truncated = TRUE, !.done = TRUE]
       ELSE [st EXCEPT !.pages = @ + 1, !.out = out]

\* One turn of _paged_select_all's loop over a store answer of total rows.
_paged_select_all(st, total, hard_cap) ==
    LET rows == Max(0, Min(PAGE_SIZE, total - st.offset))
        out == st.out + rows
    IN IF rows = 0
            THEN [st EXCEPT !.pages = @ + 1, !.done = TRUE]
       ELSE IF rows < PAGE_SIZE
            THEN [st EXCEPT !.pages = @ + 1, !.out = out, !.done = TRUE]
       ELSE IF out >= hard_cap
            THEN [st EXCEPT !.pages = @ + 1, !.out = hard_cap,
                            !.offset = @ + PAGE_SIZE, !.truncated = TRUE,
                            !.done = TRUE]
       ELSE [st EXCEPT !.pages = @ + 1, !.out = out, !.offset = @ + PAGE_SIZE]

\* The oldest-first rows (order=date.asc) among the first fetched ones that
\* are dated in month and not after end.
RECURSIVE CountMonth(_, _, _, _)
CountMonth(asc, fetched, end, month) ==
    IF asc = <<>> \/ fetched <= 0 THEN 0
    ELSE LET r == Head(asc)
             used == Min(r.n, fetched)
         IN (IF (end = <<>> \/ StrLe(r.date, end)) /\ SubSeq(r.date, 1, 7) = month
             THEN used ELSE 0)
            + CountMonth(Tail(asc), fetched - r.n, end, month)

Reverse(q) == [i \in 1..Len(q) |-> q[Len(q) + 1 - i]]

SeriesOf(t, start, end, fetched) ==
    LET months == _month_range(start, end)
    IN [i \in 1..Len(months) |->
          [month |-> months[i],
           count |-> CountMonth(Reverse(StoreRuns(t, start)), fetched, end, months[i])]]


StartInputs == {Absent, Given(<<>>), Given(D_2025_01_15), Given(D_slashes), Given(D_2025_02_30)}
EndInputs == {Absent, Given(D_2025_01_15), Given(D_2025_03_31), Given(D_short)}
Limits == {0, 1, 2, 5000, 50000}
IncludeFlags == {<<TRUE, TRUE>>, <<FALSE, FALSE>>}

\* A request of the search with its locals at their first values.
SpeechRequest(t, start_in, end_in, limit, offset, inc, seen, requests) ==
    [pc |-> "start", table |-> t, start_in |-> start_in, end_in |-> end_in,
     limit |-> limit, offset |-> offset,
     include_series |-> inc[1], include_widgets |-> inc[2],
     start |-> <<>>, end |-> <<>>,
     collected |-> <<>>, cur_offset |-> offset, pages |-> 0,
     hard_cap_hit |-> FALSE, returned |-> 0, next_offset |-> 0,
     has_more |-> FALSE, paged |-> NoPaged, series |-> <<>>,
     agg_rows_used |-> 0, used_rows |-> 0,
     queries |-> 0, status |-> 0, seen |-> seen, requests |-> requests]

SpeechInit ==
    /\ client = Off /\ trend = Off /\ snip = Off
    /\ law = Off /\ meta = Off /\ news = Off /\ ui = Off
    /\ \E t \in SpeechTables, start_in \in StartInputs, end_in \in EndInputs,
          limit \in Limits, inc \in IncludeFlags :
         speech = SpeechRequest(t, start_in, end_in, limit, 0, inc, <<>>, 1)

\* The parameter validation (422) and the handler up to its first await:
\* _validate_date of start and of end (400, re-raised by "except
\* HTTPException: raise"), then the listing, or the min/max lookup when a
\* bound is missing.
SearchStart ==
    /\ speech.pc = "start"
    /\ IF ~LimitAccepted(speech.limit) \/ speech.offset < 0
       THEN speech' = [speech EXCEPT !.pc = "done", !.status = 422]
       ELSE IF _validate_date(speech.start_in) = "bad"
               \/ _validate_date(speech.end_in) = "bad"
       THEN speech' = [speech EXCEPT !.pc = "done", !.status = 400]
       ELSE LET start == IF _validate_date(speech.start_in) = "ok"
                         THEN speech.start_in.s ELSE <<>>
                end == IF _validate_date(speech.end_in) = "ok"
                       THEN speech.end_in.s ELSE <<>>
            IN speech' = [speech EXCEPT !.start = start, !.end = end,
                            !.pc = IF start = <<>> \/ end = <<>>
                                   THEN "minmax" ELSE "list"]
    /\ UNCHANGED <<client, trend, snip, law, meta, news, ui>>

\* _min_max_date_for_kw: two GETs; without a dated match the empty bundle is
\* returned, else the missing bounds are filled in.
MinMax ==
    /\ speech.pc = "minmax"
    /\ IF speech.table = <<>>
       THEN speech' = [speech EXCEPT !.pc = "done", !.status = 200,
                        !.queries = @ + 2, !.start = <<>>, !.end = <<>>,
                        !.next_offset = speech.offset, !.has_more = FALSE]
       ELSE LET mn == speech.table[Len(speech.table)].date
                mx == speech.table[1].date
            IN speech' = [speech EXCEPT !.pc = "list", !.queries = @ + 2,
                            !.start = IF @ = <<>> THEN mn ELSE @,
                            !.end = IF @ = <<>> THEN mx ELSE @]
    /\ UNCHANGED <<client, trend, snip, law, meta, news, ui>>

\* Where the handler goes after the listing.
AfterList(sp) ==
    IF sp.include_series THEN "series"
    ELSE IF sp.include_widgets THEN "widgets"
    ELSE "done"

\* The locals at the end of the listing loop.
ListDone(sp, collected, cur_offset, hard_cap_hit) ==
    LET returned == CollectedLen(collected)
    IN [sp EXCEPT !.collected = collected, !.cur_offset = cur_offset,
                  !.pages = @ + 1, !.queries = @ + 1,
                  !.hard_cap_hit = hard_cap_hit,
                  !.returned = returned,
                  !.next_offset = sp.offset + returned,
                  !.has_more = (returned = sp.limit) /\ ~hard_cap_hit,
                  !.pc = AfterList(sp),
                  !.status = IF AfterList(sp) = "done" THEN 200 ELSE 0]

\* One turn of the listing loop: the GET of a chunk at cur_offset, the
\* post-filter by end, and the loop's exits.
ListChunk ==
    /\ speech.pc = "list"
    /\ LET runs == StoreRuns(speech.table, speech.start)
           total == Total(runs)
           chunk == Min(PAGE_SIZE, speech.limit - CollectedLen(speech.collected))
           lo == Min(speech.cur_offset, total)
           hi == Min(speech.cur_offset + chunk, total)
           flo == Max(lo, Min(hi, RowsAfter(runs, speech.end)))
           collected == IF hi > flo THEN Append(speech.collected, <<flo, hi>>)
                        ELSE speech.collected
       IN IF hi - lo = 0
               THEN speech' = ListDone(speech, speech.collected, speech.cur_offset, FALSE)
          ELSE IF hi - flo < chunk
               THEN speech' = ListDone(speech, collected, speech.cur_offset, FALSE)
          ELSE IF CollectedLen(collected) >= MAX_SPEECH_ROWS
               THEN speech' = ListDone(speech, Truncate(collected, MAX_SPEECH_ROWS),
                                       speech.cur_offset + chunk, TRUE)
          ELSE IF CollectedLen(collected) >= speech.limit
               THEN speech' = ListDone(speech, collected, speech.cur_offset + chunk, FALSE)
          ELSE speech' = [speech EXCEPT !.collected = collected,
                            !.cur_offset = @ + chunk,
                            !.pages = @ + 1, !.queries = @ + 1]
    /\ UNCHANGED <<client, trend, snip, law, meta, news, ui>>

\* One turn of the series' _paged_select_all; at its end the count by month
\* over _month_range, whose strptime turns an impossible date into the
\* catch-all's 500.
SeriesPaged ==
    /\ speech.pc = "series"
    /\ LET st == _paged_select_all(speech.paged,
                    Total(StoreRuns(speech.table, speech.start)), MAX_AGG_ROWS)
       IN IF ~st.done
               THEN speech' = [speech EXCEPT !.paged = st, !.queries = @ + 1]
          ELSE IF ~Strptime(speech.start) \/ ~Strptime(speech.end)
               THEN speech' = [speech EXCEPT !.paged = st, !.queries = @ + 1,
                                !.pc = "done", !.status = 500]
          ELSE speech' = [speech EXCEPT !.queries = @ + 1,
                            !.paged = IF speech.include_widgets THEN NoPaged ELSE st,
                            !.series = SeriesOf(speech.table, speech.start,
                                                speech.end, st.out),
                            !.agg_rows_used =
                                st.out - Min(st.out,
                                    RowsAfter(StoreRuns(speech.table, speech.start),
                                              speech.end)),
                            !.pc = IF speech.include_widgets THEN "widgets" ELSE "done",
                            !.status = IF speech.include_widgets THEN 0 ELSE 200]
    /\ UNCHANGED <<client, trend, snip, law, meta, news, ui>>

\* One turn of _top_speakers_for_kw_range's _paged_select_all; at its end the
\* bundle is returned.
WidgetsPaged ==
    /\ speech.pc = "widgets"
    /\ LET st == _paged_select_all(speech.paged,
                    Total(StoreRuns(speech.table, speech.start)), MAX_WIDGET_ROWS)
       IN IF ~st.done
               THEN speech' = [speech EXCEPT !.paged = st, !.queries = @ + 1]
          ELSE speech' = [speech EXCEPT !.paged = st, !.queries = @ + 1,
                            !.used_rows = st.out,
                            !.pc = "done", !.status = 200]
    /\ UNCHANGED <<client, trend, snip, law, meta, news, ui>>

\* The client's "load more": the same search again with offset = next_offset,
\* for as long as has_more is true.
LoadMore ==
    /\ speech.pc = "done" /\ speech.status = 200 /\ speech.has_more
    /\ speech.requests < MaxRequests
    /\ speech' = SpeechRequest(speech.table, speech.start_in, speech.end_in,
                    speech.limit, speech.next_offset,
                    <<speech.include_series, speech.include_widgets>>,
                    speech.seen \o speech.collected, speech.requests + 1)
    /\ UNCHANGED <<client, trend, snip, law, meta, news, ui>>

SpeechNext ==
    \/ SearchStart
    \/ MinMax
    \/ ListChunk
    \/ SeriesPaged
    \/ WidgetsPaged
    \/ LoadMore

SpecSpeech == SpeechInit /\ [][SpeechNext]_vars


\* The search has answered.
Answered == speech.pc = "done"

\* The speeches matching the keyword and [start, end], as positions of the
\* store's newest-first answer.
Matches ==
    LET runs == StoreRuns(speech.table, speech.start)
    IN <<Min(Total(runs), RowsAfter(runs, speech.end)), Total(runs)>>

\* C6 as stated: a search whose limit exceeds 20,000 against more than 20,000
\* matches returns at most 20,000 speeches, reports hard_cap_hit in its note
\* and has_more = false.
C6_HardCapOnLargeLimit ==
    (/\ Answered /\ speech.limit > 20000
     /\ speech.start_in = Absent /\ speech.end_in = Absent
     /\ Total(speech.table) > 20000)
    => (/\ speech.status = 200
        /\ speech.returned <= 20000
        /\ speech.hard_cap_hit
        /\ ~speech.has_more)

\* C6, amended: a limit above 5000 is rejected with 422 before any store
\* query, so no search collects more than limit <= 5000 speeches, the hard cap
\* of 20,000 is never hit, and has_more is true exactly when limit speeches
\* were returned.
C6_LimitRejectedAbove5000 ==
    /\ (speech.pc # "start" /\ speech.limit > 5000)
          => (Answered /\ speech.status = 422 /\ speech.queries = 0
              /\ speech.collected = <<>>)
    /\ CollectedLen(speech.collected) <= 5000
    /\ CollectedLen(speech.collected) <= Max(0, speech.limit)
    /\ ~speech.hard_cap_hit
    /\ (Answered /\ speech.status = 200 /\ speech.start # <<>>)
          => (speech.has_more <=> speech.returned = speech.limit)

\* limit = 50000 against 25,000 or more matches has been answered with 422.
C6_Witness ==
    /\ Answered /\ speech.limit = 50000 /\ speech.status = 422
    /\ speech.start_in = Absent /\ speech.end_in = Absent
    /\ Total(speech.table) > 20000

\* The positions returned by the requests of the session so far.
Returned == speech.seen \o speech.collected

\* C7: repeating the search with offset = next_offset while has_more is true
\* returns every speech matching the keyword and [start, end] exactly once:
\* no position is returned twice, and when has_more is false without the hard
\* cap the returned positions are exactly the matching ones.
C7_LoadMoreReturnsEachOnce ==
    /\ \A i, j \in DOMAIN Returned :
          i < j => (Returned[i][2] <= Returned[j][1] \/ Returned[j][2] <= Returned[i][1])
    /\ (Answered /\ speech.status = 200 /\ ~speech.has_more /\ ~speech.hard_cap_hit)
          => /\ \A i \in DOMAIN Returned :
                    Matches[1] <= Returned[i][1] /\ Returned[i][2] <= Matches[2]
             /\ CollectedLen(Returned) = Matches[2] - Matches[1]

\* The number of a calendar month.
MonthIndex(s) == 12 * Num(s, 1, 4) + (Num(s, 6, 7) - 1)

\* The rows of the table dated in [start, end] and in the month numbered m.
RowsInMonth(m) ==
    Total(SelectSeq(speech.table, LAMBDA r :
        /\ StrLe(speech.start, r.date) /\ StrLe(r.date, speech.end)
        /\ MonthIndex(r.date) = m))

\* C9: a returned monthly series has exactly one entry for every calendar
\* month from the month of start through the month of end, ascending, months
\* of count 0 included, and each count is the number of fetched matching rows
\* dated within [start, end] in that month.
C9_SeriesDense ==
    (/\ Answered /\ speech.status = 200 /\ speech.include_series
     /\ speech.start # <<>>
     /\ Total(StoreRuns(speech.table, speech.start)) < MAX_AGG_ROWS)
    => LET first == MonthIndex(speech.start)
           last == MonthIndex(speech.end)
       IN /\ Len(speech.series) = Max(0, last - first + 1)
          /\ \A j \in DOMAIN speech.series :
                /\ Len(speech.series[j].month) = 7
                /\ MonthIndex(speech.series[j].month) = first + j - 1
                /\ speech.series[j].count = RowsInMonth(first + j - 1)

\* A series over 2025-01 .. 2025-03 whose middle month has no speech.
C9_Witness ==
    /\ Answered /\ speech.status = 200 /\ speech.include_series
    /\ speech.start = D_2025_01_15 /\ speech.end = D_2025_03_31
    /\ Len(speech.series) = 3
    /\ speech.series[1].count > 0
    /\ speech.series[2].count = 0
    /\ speech.series[3].count > 0

\* The literal pattern: 4 digits, '-', 2 digits, '-', 2 digits.
IsDateLiteral(s) ==
    /\ Len(s) = 10
    /\ s[5] = "-" /\ s[8] = "-"
    /\ \A i \in (1..10) \ {5, 8} : Code(s[i]) >= 48 /\ Code(s[i]) <= 57

\* C10 as stated: a search whose start or end is given and does not match the
\* pattern is rejected with 400 before any store query.
C10_GivenBadDateIs400 ==
    (/\ speech.pc # "start"
     /\ \/ speech.start_in.given /\ ~IsDateLiteral(speech.start_in.s)
        \/ speech.end_in.given /\ ~IsDateLiteral(speech.end_in.s))
    => (Answered /\ speech.status = 400 /\ speech.queries = 0)

\* C10, amended: a search that passes the parameter validation (limit in
\* 1..5000, offset >= 0) and whose start or end is given, not empty, and does
\* not match the pattern is rejected with 400 before any store query, and the
\* 400 is not turned into a 500; an empty start or end counts as absent.
C10_NonEmptyBadDateIs400 ==
    (/\ speech.pc # "start"
     /\ speech.limit >= 1 /\ speech.limit <= 5000 /\ speech.offset >= 0
     /\ \/ speech.start_in.s # <<>> /\ ~IsDateLiteral(speech.start_in.s)
        \/ speech.end_in.s # <<>> /\ ~IsDateLiteral(speech.end_in.s))
    => (Answered /\ speech.status = 400 /\ speech.queries = 0)

\* start=2025/01/15 has been answered with 400 and no store query.
C10_Witness ==
    /\ Answered /\ speech.status = 400 /\ speech.queries = 0
    /\ speech.start_in = Given(D_slashes)
    /\ speech.end_in = Given(D_2025_03_31)


(***************************************************************************)
(* routers/law.py: /api/law2/stack/category and /api/law2/stack/party.     *)
(* A scope is the sequence of its characters, the Korean syllables written *)
(* in Latin letters; "all" stands for the selector value of "everything".  *)
(* An empty string stands for a missing or empty column.                   *)
(***************************************************************************)

\* Bound: the rows of the law2 table.
MaxLawRows == 2

All == "all"
LawLimit == 200000

Scope_law_revision == <<"beob", "gae", "jeong">>
Scope_law_revision_spaced == <<"beob", " ", "gae", "jeong">>
Scope_system_improvement == <<"je", "do", "gae", "seon">>
Scope_system_improvement_spaced == <<"je", "do", " ", "gae", "seon">>
Scope_rule_change == <<"gyu", "jeong", "byeon", "gyeong">>
Scope_other == <<"gi", "ta">>

\* _scope_key leaving the spaces in.
_scope_key_keep_spaces(s) == s

\* _scope_key: (s or "").replace(" ", "")
_scope_key(s) == SelectSeq(s, LAMBDA c : c # " ")

\* The counter a scope key is added to: 1 num_scope_law_revision,
\* 2 num_scope_system_improvement, 3 num_scope_rule_change, 0 for none.
CounterOf(scope) ==
    IF scope = Scope_law_revision THEN 1
    ELSE IF scope = Scope_system_improvement THEN 2
    ELSE IF scope = Scope_rule_change THEN 3
    ELSE 0

_base_row == <<0, 0, 0>>

\* The rows: a few shapes of (assembly, l2, l3, party), and a few of
\* (scope, count), where a missing count is NullInt.
LawShapes ==
    { <<22, "L2a", "L3a", "P1">>, <<22, "L2a", "L3b", "P2">>,
      <<22, "L2b", "L3a", "P1">>, <<21, "", "L3a", "">> }
LawScopeCounts ==
    { <<Scope_law_revision, 7>>, <<Scope_law_revision_spaced, 7>>,
      <<Scope_system_improvement_spaced, 2>>, <<Scope_rule_change, NullInt>>,
      <<Scope_other, 7>> }
LawRows ==
    { [assembly |-> sh[1], l2 |-> sh[2], l3 |-> sh[3], party |-> sh[4],
       scope |-> sc[1], count |-> sc[2]] : sh \in LawShapes, sc \in LawScopeCounts }
LawTables == UNION { [1..k -> LawRows] : k \in 0..MaxLawRows }

\* int(assembly): the number of a numeric string, NullInt for the ValueError.
IntOfAssembly(a) ==
    CASE a = "20" -> 20 [] a = "21" -> 21 [] a = "22" -> 22 [] OTHER -> NullInt

\* The GET of law2 with the filters the endpoint sets: assembly unless "all";
\* l2 and l3 only when the endpoint passes them (NullInt / All: no filter).
LawStoreRows(t, assembly, l2, l3) ==
    Window(SelectSeq(t, LAMBDA r :
               /\ assembly # NullInt => r.assembly = assembly
               /\ l2 # All => r.l2 = l2
               /\ l3 # All => r.l3 = l3),
           0, LawLimit)

\* The axis of the stacked-by-category rows, always l2.
GroupKeyAlwaysL2(l2) == "l2"

\* group_key = "l2" if l2 == "all" else "l3"
GroupKey(l2) == IF l2 = All THEN "l2" ELSE "l3"

KeyVal(r, group_key) ==
    CASE group_key = "l2" -> r.l2 [] group_key = "l3" -> r.l3
      [] group_key = "party" -> r.party

\* The loop over the rows: out maps a key to its three counters.
RECURSIVE LawStack(_, _, _, _)
LawStack(rows, i, out, group_key) ==
    IF i > Len(rows) THEN out
    ELSE LET r == rows[i]
             key_val == KeyVal(r, group_key)
             scope == _scope_key(r.scope)
             cnt == IF r.count = NullInt THEN 0 ELSE r.count
             out1 == IF key_val \in DOMAIN out THEN out
                     ELSE out @@ (key_val :> _base_row)
             n == CounterOf(scope)
         IN IF key_val = "" THEN LawStack(rows, i + 1, out, group_key)
            ELSE LawStack(rows, i + 1,
                    IF n = 0 THEN out1
                    ELSE [out1 EXCEPT ![key_val][n] = @ + cnt],
                    group_key)

LawRank(k) ==
    CASE k = "L2a" -> 1 [] k = "L2b" -> 2 [] k = "L3a" -> 3 [] k = "L3b" -> 4
      [] k = "P1" -> 5 [] k = "P2" -> 6

\* [out[k] for k in sorted(out.keys())]
RECURSIVE LawOut(_)
LawOut(out) ==
    IF DOMAIN out = {} THEN <<>>
    ELSE LET k == CHOOSE a \in DOMAIN out :
                    \A b \in DOMAIN out : LawRank(a) <= LawRank(b)
         IN <<[key |-> k, num |-> out[k]]>>
            \o LawOut([x \in DOMAIN out \ {k} |-> out[x]])

LawAssemblies == {"22", All, "abc"}

LawInit ==
    /\ client = Off /\ trend = Off /\ snip = Off /\ speech = Off
    /\ meta = Off /\ news = Off /\ ui = Off
    /\ \E t \in LawTables, op \in {"category", "party"}, a \in LawAssemblies,
          l2 \in {All, "L2a"}, l3 \in {All, "L3a"} :
         law = [pc |-> "start", table |-> t, op |-> op, assembly |-> a,
                l2 |-> l2, l3 |-> l3, rows |-> <<>>, out |-> <<>>]

\* law2_stack_category: the filters, the GET, the loop and the sorted rows;
\* int(assembly) of a non-number ends the request before the GET.
law2_stack_category ==
    /\ law.pc = "start" /\ law.op = "category"
    /\ IF law.assembly # All /\ IntOfAssembly(law.assembly) = NullInt
       THEN law' = [law EXCEPT !.pc = "failed"]
       ELSE LET rows == LawStoreRows(law.table,
                            IF law.assembly = All THEN NullInt
                            ELSE IntOfAssembly(law.assembly),
                            law.l2, law.l3)
            IN law' = [law EXCEPT !.pc = "done", !.rows = rows,
                        !.out = LawOut(LawStack(rows, 1, EmptyAgg, GroupKey(law.l2)))]
    /\ UNCHANGED <<client, trend, snip, speech, meta, news, ui>>

\* law2_stack_party: it declares no l2 and no l3 parameter, so the GET is
\* filtered by assembly only.
law2_stack_party ==
    /\ law.pc = "start" /\ law.op = "party"
    /\ IF law.assembly # All /\ IntOfAssembly(law.assembly) = NullInt
       THEN law' = [law EXCEPT !.pc = "failed"]
       ELSE LET rows == LawStoreRows(law.table,
                            IF law.assembly = All THEN NullInt
                            ELSE IntOfAssembly(law.assembly),
                            All, All)
            IN law' = [law EXCEPT !.pc = "done", !.rows = rows,
                        !.out = LawOut(LawStack(rows, 1, EmptyAgg, "party"))]
    /\ UNCHANGED <<client, trend, snip, speech, meta, news, ui>>

LawNext ==
    \/ law2_stack_category
    \/ law2_stack_party

SpecLaw == LawInit /\ [][LawNext]_vars


\* The value the stacking endpoint groups its rows by.
LawAxis(r) ==
    IF law.op = "party" THEN r.party
    ELSE IF law.l2 = All THEN r.l2 ELSE r.l3

LawAxisName ==
    IF law.op = "party" THEN "party" ELSE IF law.l2 = All THEN "l2" ELSE "l3"

\* The counters after the first k fetched rows.
StackedAfter(k) == LawStack(SubSeq(law.rows, 1, k), 1, EmptyAgg, LawAxisName)

CounterVal(out, key, n) == IF key \in DOMAIN out THEN out[key][n] ELSE 0

RECURSIVE WithoutSpaces(_)
WithoutSpaces(s) ==
    IF s = <<>> THEN <<>>
    ELSE IF Head(s) = " " THEN WithoutSpaces(Tail(s))
    ELSE <<Head(s)>> \o WithoutSpaces(Tail(s))

\* The counter named by a scope once its spaces are removed; 0 for none.
ScopeCounter(scope) ==
    CASE WithoutSpaces(scope) = <<"beob", "gae", "jeong">> -> 1
      [] WithoutSpaces(scope) = <<"je", "do", "gae", "seon">> -> 2
      [] WithoutSpaces(scope) = <<"gyu", "jeong", "byeon", "gyeong">> -> 3
      [] OTHER -> 0

LawKeys == {"", "L2a", "L2b", "L3a", "L3b", "P1", "P2"}

\* The k-th fetched row adds add to counter n of the output row key, and
\* nothing to any other counter.
AddsOnlyTo(k, key, n, add) ==
    \A x \in LawKeys, m \in 1..3 :
        CounterVal(StackedAfter(k), x, m)
          = CounterVal(StackedAfter(k - 1), x, m)
            + (IF x = key /\ m = n THEN add ELSE 0)

\* The response is the rows of the counters after the last fetched row.
ResponseIsStack ==
    { <<law.out[j].key, law.out[j].num>> : j \in DOMAIN law.out }
      = { <<x, StackedAfter(Len(law.rows))[x]>> :
            x \in DOMAIN StackedAfter(Len(law.rows)) }

\* C11 as stated: in both stacking operations each fact row adds its count to
\* exactly one counter of exactly one output row, the one its scope names once
\* the spaces are removed, and leaves every other counter unchanged; a row
\* with an unrecognized scope changes no counter.  A missing count is 0.
C11_EachRowOneCounter ==
    law.pc = "done" =>
        /\ ResponseIsStack
        /\ \A k \in DOMAIN law.rows :
              IF ScopeCounter(law.rows[k].scope) = 0
              THEN AddsOnlyTo(k, "", 0, 0)
              ELSE /\ LawAxis(law.rows[k]) \in DOMAIN StackedAfter(k)
                   /\ AddsOnlyTo(k, LawAxis(law.rows[k]),
                                 ScopeCounter(law.rows[k].scope),
                                 IF law.rows[k].count = NullInt THEN 0
                                 ELSE law.rows[k].count)

\* C11, amended: a fact row whose grouping value (l2, l3 or party) is not
\* empty adds its count, 0 when the count is missing, to the one counter its
\* scope names once the spaces are removed, in the output row of its grouping
\* value, and leaves every other counter unchanged; a row with an
\* unrecognized scope, or with an empty grouping value, changes no counter.
C11_KeyedRowOneCounter ==
    law.pc = "done" =>
        /\ ResponseIsStack
        /\ \A k \in DOMAIN law.rows :
              IF ScopeCounter(law.rows[k].scope) = 0 \/ LawAxis(law.rows[k]) = ""
              THEN AddsOnlyTo(k, "", 0, 0)
              ELSE /\ LawAxis(law.rows[k]) \in DOMAIN StackedAfter(k)
                   /\ AddsOnlyTo(k, LawAxis(law.rows[k]),
                                 ScopeCounter(law.rows[k].scope),
                                 IF law.rows[k].count = NullInt THEN 0
                                 ELSE law.rows[k].count)

\* The spaced and the unspaced scope of two rows of one party went to the same
\* counter, 7 each, and the other counters stayed 0.
C11_Witness ==
    /\ law.pc = "done" /\ law.op = "party" /\ Len(law.rows) = 2
    /\ law.rows[1].scope = Scope_law_revision_spaced
    /\ law.rows[2].scope = Scope_law_revision
    /\ law.out = <<[key |-> "P1", num |-> <<14, 0, 0>>]>>

\* The law2 rows the stacked-by-party operation is asked about: those of the
\* assembly, of the given l2 and of the given l3.
PartyFiltered ==
    SelectSeq(law.table, LAMBDA r :
        /\ law.assembly # All => r.assembly = IntOfAssembly(law.assembly)
        /\ law.l2 # All => r.l2 = law.l2
        /\ law.l3 # All => r.l3 = law.l3)

\* C12: the stacked-by-party operation applies l2 and l3 as pre-filters: only
\* rows with the given l2 (l3) contribute to the per-party counters, and every
\* party present in the filtered rows is returned, sorted by party ascending.
C12_PartyPrefilteredByL2L3 ==
    (law.pc = "done" /\ law.op = "party") =>
        /\ { law.out[j].key : j \in DOMAIN law.out }
             = { PartyFiltered[i].party : i \in DOMAIN PartyFiltered } \ {""}
        /\ \A j \in DOMAIN law.out :
              law.out[j].num
                = LawStack(PartyFiltered, 1, EmptyAgg, "party")[law.out[j].key]
        /\ \A i, j \in DOMAIN law.out :
              i < j => LawRank(law.out[i].key) < LawRank(law.out[j].key)

\* C13: the stacked-by-category operation groups by l2 when the l2 parameter
\* is "all" and by l3 otherwise, and returns exactly one row per distinct
\* non-empty axis value among the fetched rows, sorted ascending.
C13_CategoryAxis ==
    (law.pc = "done" /\ law.op = "category") =>
        LET axis == { IF law.l2 = All THEN law.rows[i].l2 ELSE law.rows[i].l3 :
                        i \in DOMAIN law.rows } \ {""}
        IN /\ law.rows = SelectSeq(law.table, LAMBDA r :
                            /\ law.assembly # All => r.assembly = IntOfAssembly(law.assembly)
                            /\ law.l2 # All => r.l2 = law.l2
                            /\ law.l3 # All => r.l3 = law.l3)
           /\ { law.out[j].key : j \in DOMAIN law.out } = axis
           /\ Len(law.out) = Cardinality(axis)
           /\ \A i, j \in DOMAIN law.out :
                 i < j => LawRank(law.out[i].key) < LawRank(law.out[j].key)

\* With l2 = L2a the rows of L2a are split by l3 into two rows.
C13_Witness ==
    /\ law.pc = "done" /\ law.op = "category" /\ law.l2 = "L2a"
    /\ Len(law.out) = 2
    /\ law.out[1].key = "L3a" /\ law.out[2].key = "L3b"


(***************************************************************************)
(* session_label and parse_session_no (routers/recap.py, routers/meta.py,  *)
(* main.py).  "hoe" stands for the one Korean character of the label.      *)
(***************************************************************************)

\* Bound: the largest session number of the runs over a range of numbers.
MaxSessionNo == 500

\* str(n) of an integer.
RECURSIVE Decimal(_)
Decimal(n) ==
    IF n < 0 THEN <<"-">> \o Decimal(0 - n)
    ELSE IF n < 10 THEN <<DigitOf(n)>>
    ELSE Decimal(n \div 10) \o <<DigitOf(n % 10)>>

\* f"{n}hoe"
session_label(n) == Decimal(n) \o <<"hoe">>

\* The position of the first digit of s, 0 for none.
FirstDigit(s) ==
    IF \E i \in DOMAIN s : s[i] \in Digits
    THEN CHOOSE i \in DOMAIN s :
            s[i] \in Digits /\ \A j \in 1..(i - 1) : s[j] \notin Digits
    ELSE 0

\* The last position of the run of digits that starts at position i.
RunEnd(s, i) ==
    CHOOSE j \in i..Len(s) :
        /\ \A k \in i..j : s[k] \in Digits
        /\ j = Len(s) \/ s[j + 1] \notin Digits

\* parse_session_no reading one digit only.
parse_session_no_one_digit(s) ==
    IF FirstDigit(s) = 0 THEN NullInt
    ELSE Num(s, FirstDigit(s), FirstDigit(s))

\* parse_session_no: re.search(r"(\d+)", str(s)), NullInt for None.
parse_session_no(s) ==
    IF FirstDigit(s) = 0 THEN NullInt
    ELSE Num(s, FirstDigit(s), RunEnd(s, FirstDigit(s)))

LabelInit ==
    /\ client = Off /\ trend = Off /\ snip = Off /\ speech = Off
    /\ law = Off /\ news = Off /\ ui = Off
    /\ \E n \in (0 - 12)..MaxSessionNo :
         meta = [pc |-> "start", n |-> n, label |-> <<>>, parsed |-> NullInt]

SessionLabel ==
    /\ meta.pc = "start"
    /\ meta' = [meta EXCEPT !.pc = "labelled", !.label = session_label(meta.n)]
    /\ UNCHANGED <<client, trend, snip, speech, law, news, ui>>

ParseSessionNo ==
    /\ meta.pc = "labelled"
    /\ meta' = [meta EXCEPT !.pc = "parsed", !.parsed = parse_session_no(meta.label)]
    /\ UNCHANGED <<client, trend, snip, speech, law, news, ui>>

LabelNext ==
    \/ SessionLabel
    \/ ParseSessionNo

SpecLabel == LabelInit /\ [][LabelNext]_vars

\* C14: for every integer n >= 1, parsing the session label built from n by
\* first-run-of-digits extraction gives back n.
C14_LabelRoundTrip ==
    (meta.pc = "parsed" /\ meta.n >= 1) => meta.parsed = meta.n

\* The label of session 415 has been parsed back to 415.
C14_Witness ==
    /\ meta.pc = "parsed" /\ meta.n = 415
    /\ meta.label = <<"4", "1", "5", "hoe">>
    /\ meta.parsed = 415


(***************************************************************************)
(* The assembly of a session: the browser's getAssemblyBySession (main.py) *)
(* and the server's _session_in_assemblies (routers/trend.py).  NullInt is *)
(* a session that is not a number, and the browser's null.                 *)
(***************************************************************************)

\* getAssemblyBySession with the first range starting one session late.
getAssemblyBySession_late(n) ==
    IF n = NullInt THEN NullInt
    ELSE IF n > 353 /\ n <= 378 THEN 20
    ELSE IF n >= 379 /\ n <= 414 THEN 21
    ELSE IF n >= 415 THEN 22
    ELSE NullInt

getAssemblyBySession(n) ==
    IF n = NullInt THEN NullInt
    ELSE IF n >= 353 /\ n <= 378 THEN 20
    ELSE IF n >= 379 /\ n <= 414 THEN 21
    ELSE IF n >= 415 THEN 22
    ELSE NullInt

SessionNumbers == (0..MaxSessionNo) \cup {999999, NullInt}
AssemblyLists == SUBSET {19, 20, 21, 22}

AssemblyInit ==
    /\ client = Off /\ trend = Off /\ snip = Off /\ speech = Off
    /\ law = Off /\ news = Off /\ ui = Off
    /\ \E n \in SessionNumbers, A \in AssemblyLists :
         meta = [pc |-> "start", n |-> n, assemblies |-> A,
                 browser |-> NullInt, server |-> FALSE]

GetAssemblyBySession ==
    /\ meta.pc = "start"
    /\ meta' = [meta EXCEPT !.pc = "mapped", !.browser = getAssemblyBySession(meta.n)]
    /\ UNCHANGED <<client, trend, snip, speech, law, news, ui>>

SessionInAssemblies ==
    /\ meta.pc = "mapped"
    /\ meta' = [meta EXCEPT !.pc = "checked",
                    !.server = _session_in_assemblies(meta.n, meta.assemblies)]
    /\ UNCHANGED <<client, trend, snip, speech, law, news, ui>>

AssemblyNext ==
    \/ GetAssemblyBySession
    \/ SessionInAssemblies

SpecAssembly == AssemblyInit /\ [][AssemblyNext]_vars

\* C15: the assembly of session n is 20 iff 353 <= n <= 378, 21 iff
\* 379 <= n <= 414, 22 iff n >= 415 and nothing otherwise, so no n has two
\* assemblies; _session_in_assemblies(n, A) is true exactly when A is empty or
\* the assembly of n is in A, in agreement with getAssemblyBySession.
C15_AssemblyMapping ==
    (meta.pc = "checked" /\ meta.n # NullInt) =>
        /\ meta.browser = 20 <=> (353 <= meta.n /\ meta.n <= 378)
        /\ meta.browser = 21 <=> (379 <= meta.n /\ meta.n <= 414)
        /\ meta.browser = 22 <=> 415 <= meta.n
        /\ meta.browser = NullInt <=> meta.n < 353
        /\ Cardinality({ a \in {20, 21, 22} :
                _session_in_assemblies(meta.n, {a}) }) <= 1
        /\ meta.server <=> (meta.assemblies = {} \/ meta.browser \in meta.assemblies)
        /\ (meta.n = 352 => meta.browser = NullInt) /\ (meta.n = 353 => meta.browser = 20)
        /\ (meta.n = 378 => meta.browser = 20) /\ (meta.n = 379 => meta.browser = 21)
        /\ (meta.n = 414 => meta.browser = 21) /\ (meta.n = 415 => meta.browser = 22)
        /\ (meta.n = 999999 => meta.browser = 22)

\* Session 353, the first of assembly 20, passed the check for {20, 22}.
C15_Witness ==
    /\ meta.pc = "checked" /\ meta.n = 353 /\ meta.assemblies = {20, 22}
    /\ meta.browser = 20 /\ meta.server


(***************************************************************************)
(* routers/meta.py: /api/sessions.  A table is the sequence of the session *)
(* labels of its rows; <<>> is a missing or empty label.                   *)
(***************************************************************************)

\* Bound: the rows of the text-recap table.
MaxLabelRows == 2

SessionsLimit == 10000

SessionLabels ==
    { <<"4", "1", "5", "hoe">>, <<"je", "3", "5", "3", "hoe">>,
      <<"2", "2", "dae", " ", "4", "1", "6", "hoe">>,
      <<"0", "hoe">>, <<"im", "si">>, <<>> }

TextTables == UNION { [1..k -> SessionLabels] : k \in 0..MaxLabelRows }
SideTables == UNION { [1..k -> SessionLabels] : k \in 0..1 }

\* The set collected from the text-recap rows only.
SessionSetTextOnly(rows_text, rows_people, rows_data) ==
    { parse_session_no(rows_text[i]) : i \in DOMAIN rows_text } \ {NullInt, 0}

\* The three loops: "if n: ses.add(n)" keeps a parsed number unless it is
\* None or 0.
SessionSet(rows_text, rows_people, rows_data) ==
    ({ parse_session_no(rows_text[i]) : i \in DOMAIN rows_text }
     \cup { parse_session_no(rows_people[i]) : i \in DOMAIN rows_people }
     \cup { parse_session_no(rows_data[i]) : i \in DOMAIN rows_data }) \ {NullInt, 0}

\* sorted(ses)
RECURSIVE SortedInts(_)
SortedInts(S) ==
    IF S = {} THEN <<>>
    ELSE LET m == CHOOSE x \in S : \A y \in S : x <= y
         IN <<m>> \o SortedInts(S \ {m})

SessionsInit ==
    /\ client = Off /\ trend = Off /\ snip = Off /\ speech = Off
    /\ law = Off /\ news = Off /\ ui = Off
    /\ \E t \in TextTables, p \in SideTables, d \in SideTables :
         meta = [pc |-> "start", text_recap |-> t, people_recap |-> p,
                 data_request_recap |-> d,
                 rows_text |-> <<>>, rows_people |-> <<>>, rows_data |-> <<>>,
                 out |-> <<>>]

\* The three GETs, one after the other, and the answer built after the last.
SessionsGetText ==
    /\ meta.pc = "start"
    /\ meta' = [meta EXCEPT !.pc = "people",
                    !.rows_text = Window(meta.text_recap, 0, SessionsLimit)]
    /\ UNCHANGED <<client, trend, snip, speech, law, news, ui>>

SessionsGetPeople ==
    /\ meta.pc = "people"
    /\ meta' = [meta EXCEPT !.pc = "data",
                    !.rows_people = Window(meta.people_recap, 0, SessionsLimit)]
    /\ UNCHANGED <<client, trend, snip, speech, law, news, ui>>

SessionsGetData ==
    /\ meta.pc = "data"
    /\ LET rows_data == Window(meta.data_request_recap, 0, SessionsLimit)
       IN meta' = [meta EXCEPT !.pc = "done", !.rows_data = rows_data,
                       !.out = SortedInts(SessionSet(meta.rows_text,
                                                     meta.rows_people, rows_data))]
    /\ UNCHANGED <<client, trend, snip, speech, law, news, ui>>

SessionsNext ==
    \/ SessionsGetText
    \/ SessionsGetPeople
    \/ SessionsGetData

SpecSessions == SessionsInit /\ [][SessionsNext]_vars

\* The numbers the labels of the fetched rows of the three tables parse to.
ParsedNumbers ==
    { parse_session_no(l) :
        l \in { meta.rows_text[i] : i \in DOMAIN meta.rows_text }
              \cup { meta.rows_people[i] : i \in DOMAIN meta.rows_people }
              \cup { meta.rows_data[i] : i \in DOMAIN meta.rows_data } } \ {NullInt}

SessionsAscending ==
    \A i, j \in DOMAIN meta.out : i < j => meta.out[i] < meta.out[j]

\* C16 as stated: the sessions list is strictly ascending and duplicate-free
\* and contains n exactly when some fetched row of the three tables has a
\* label whose first run of digits parses to n.
C16_SessionsUnion ==
    meta.pc = "done" =>
        /\ SessionsAscending
        /\ { meta.out[i] : i \in DOMAIN meta.out } = ParsedNumbers

\* C16, amended: the list is strictly ascending and duplicate-free and
\* contains n exactly when n is not 0 and some fetched row of the three tables
\* has a label whose first run of digits parses to n.
C16_SessionsUnionNonZero ==
    meta.pc = "done" =>
        /\ SessionsAscending
        /\ { meta.out[i] : i \in DOMAIN meta.out } = ParsedNumbers \ {0}

\* One number from each table, 415 twice, answered as 22, 353, 415.
C16_Witness ==
    /\ meta.pc = "done"
    /\ meta.rows_text = << <<"4", "1", "5", "hoe">>, <<"je", "3", "5", "3", "hoe">> >>
    /\ meta.rows_people = << <<"4", "1", "5", "hoe">> >>
    /\ meta.rows_data = << <<"2", "2", "dae", " ", "4", "1", "6", "hoe">> >>
    /\ meta.out = <<22, 353, 415>>


(***************************************************************************)
(* main.py, the dashboard page: buildQuestionAggFiltered.  A string is the *)
(* sequence of its characters; NullStr is null / undefined.                *)
(***************************************************************************)

\* Bound: the rows of the questions statistics.
MaxQRows == 3

NullStr == <<"null">>
Unclassified_ko == <<"mi", "bun", "ryu">>
Separator == <<"|", "|">>

\* s.split("||"): the parts of s between the occurrences of the separator,
\* found from the left.
RECURSIVE SplitBars(_, _)
SplitBars(s, part) ==
    IF s = <<>> THEN <<part>>
    ELSE IF Len(s) >= 2 /\ SubSeq(s, 1, 2) = Separator
         THEN <<part>> \o SplitBars(SubSeq(s, 3, Len(s)), <<>>)
    ELSE SplitBars(Tail(s), Append(part, Head(s)))

QRowKinds ==
    { <<415, <<"A">>, <<"X">>, 3>>, <<415, <<"A">>, <<"X">>, 5>>,
      <<415, <<"A">>, <<"Y">>, 3>>, <<415, <<"A">>, NullStr, 5>>,
      <<415, <<"A">>, <<>>, 3>>, <<415, <<"B">>, <<"X">>, 3>>,
      <<416, <<"A">>, <<"X">>, 5>>, <<415, <<>>, <<"X">>, 3>>,
      <<415, NullStr, <<"Y">>, 5>>, <<NullInt, <<"B">>, <<"Y">>, 5>>,
      <<415, <<"A", "|", "|", "X">>, <<"Y">>, 3>> }
QRows ==
    { [session |-> k[1], speaker_name |-> k[2], party |-> k[3],
       num_questions |-> k[4]] : k \in QRowKinds }
QTables == UNION { [1..k -> QRows] : k \in 0..MaxQRows }

\* The loop over the rows: m is the Map, as its entries in insertion order.
RECURSIVE QuestionMap(_, _, _, _)
QuestionMap(qRows, i, m, ses) ==
    IF i > Len(qRows) THEN m
    ELSE LET r == qRows[i]
             speaker == IF r.speaker_name = NullStr THEN <<>> ELSE r.speaker_name
             party == IF r.party = NullStr THEN Unclassified_ko ELSE r.party
             key == speaker \o Separator \o party
             at == { j \in DOMAIN m : m[j].key = key }
         IN IF ses # 0 /\ r.session # ses THEN QuestionMap(qRows, i + 1, m, ses)
            ELSE IF speaker = <<>> THEN QuestionMap(qRows, i + 1, m, ses)
            ELSE QuestionMap(qRows, i + 1,
                    IF at = {} THEN Append(m, [key |-> key, v |-> r.num_questions])
                    ELSE [j \in DOMAIN m |->
                            IF j \in at THEN [m[j] EXCEPT !.v = @ + r.num_questions]
                            ELSE m[j]],
                    ses)

\* arr.sort((a, b) => b.num_questions - a.num_questions), a stable sort.
RECURSIVE SortByQuestions(_)
SortByQuestions(arr) ==
    IF arr = <<>> THEN <<>>
    ELSE LET i == CHOOSE a \in DOMAIN arr :
                    /\ \A b \in DOMAIN arr : arr[b].num_questions <= arr[a].num_questions
                    /\ \A b \in 1..(a - 1) : arr[b].num_questions < arr[a].num_questions
         IN <<arr[i]>>
            \o SortByQuestions([j \in 1..(Len(arr) - 1) |->
                                  IF j < i THEN arr[j] ELSE arr[j + 1]])

buildQuestionAggFiltered(qRows, sessionNo) ==
    LET m == QuestionMap(qRows, 1, <<>>, sessionNo)
    IN SortByQuestions([j \in DOMAIN m |->
            [speaker |-> SplitBars(m[j].key, <<>>)[1],
             party |-> SplitBars(m[j].key, <<>>)[2],
             num_questions |-> m[j].v]])

QuestionsInit ==
    /\ client = Off /\ trend = Off /\ snip = Off /\ speech = Off
    /\ law = Off /\ meta = Off /\ news = Off
    /\ \E t \in QTables, ses \in {0, 415} :
         ui = [pc |-> "start", qRows |-> t, sessionNo |-> ses, out |-> <<>>]

BuildQuestionAgg ==
    /\ ui.pc = "start"
    /\ ui' = [ui EXCEPT !.pc = "done",
                !.out = buildQuestionAggFiltered(ui.qRows, ui.sessionNo)]
    /\ UNCHANGED <<client, trend, snip, speech, law, meta, news>>

QuestionsNext == BuildQuestionAgg

SpecQuestions == QuestionsInit /\ [][QuestionsNext]_vars

\* The rows of the selected session (of every session when none is selected)
\* that have a non-empty speaker.
QSelected ==
    SelectSeq(ui.qRows, LAMBDA r :
        /\ ui.sessionNo = 0 \/ r.session = ui.sessionNo
        /\ r.speaker_name # NullStr /\ r.speaker_name # <<>>)

PartyOrUnclassified(r) == IF r.party = NullStr THEN Unclassified_ko ELSE r.party

RECURSIVE SumQuestions(_)
SumQuestions(rows) ==
    IF rows = <<>> THEN 0 ELSE Head(rows).num_questions + SumQuestions(Tail(rows))

\* C17: the aggregation returns exactly one entry per distinct (speaker, party
\* or the unclassified label) pair among the rows of the selected session with
\* a non-empty speaker, num_questions being the sum over the pair's rows, in
\* descending order of the sum; one speaker's parties stay separate entries.
C17_OneEntryPerSpeakerParty ==
    ui.pc = "done" =>
        LET pairs == { <<QSelected[i].speaker_name, PartyOrUnclassified(QSelected[i])>> :
                         i \in DOMAIN QSelected }
        IN /\ { <<ui.out[j].speaker, ui.out[j].party>> : j \in DOMAIN ui.out } = pairs
           /\ Len(ui.out) = Cardinality(pairs)
           /\ \A j \in DOMAIN ui.out :
                 ui.out[j].num_questions
                   = SumQuestions(SelectSeq(QSelected, LAMBDA r :
                        /\ r.speaker_name = ui.out[j].speaker
                        /\ PartyOrUnclassified(r) = ui.out[j].party))
           /\ \A i, j \in DOMAIN ui.out :
                 i < j => ui.out[i].num_questions >= ui.out[j].num_questions


(***************************************************************************)
(* routers/news.py: /api/news/issues.  "ellipsis" is the one character     *)
(* appended to a cut preview.                                              *)
(***************************************************************************)

\* Bound: the rows of the news table.
MaxNewsRows == 3

PreviewLen == 160
NewsLimit == 3000

\* s.strip(), for the space character.
RECURSIVE LStrip(_)
LStrip(s) == IF s # <<>> /\ Head(s) = " " THEN LStrip(Tail(s)) ELSE s
RECURSIVE RStrip(_)
RStrip(s) ==
    IF s # <<>> /\ s[Len(s)] = " " THEN RStrip(SubSeq(s, 1, Len(s) - 1)) ELSE s
Strip(s) == RStrip(LStrip(s))

\* s.lower(), for the letters of the values used here.
Lower(s) ==
    [i \in DOMAIN s |-> CASE s[i] = "A" -> "a" [] s[i] = "B" -> "b"
                          [] s[i] = "N" -> "n" [] OTHER -> s[i]]

\* str(v) of a column value: None prints as "None".
StrOf(v) == IF v = NullStr THEN <<"N", "o", "n", "e">> ELSE v

\* sub in s
Contains(s, sub) ==
    \E i \in 1..(Len(s) + 1) :
        i + Len(sub) - 1 <= Len(s) /\ SubSeq(s, i, i + Len(sub) - 1) = sub

Bg_short == <<"b", "g">>
Bg_other == <<"o", "t", "h", "e", "r">>
Bg_blank == <<" ">>
Bg_160 == [i \in 1..160 |-> "y"]
Bg_161 == [i \in 1..161 |-> "x"]

\* (keyword, created_at, background, batch_id) of the rows.
NewsRowKinds ==
    { << <<"A">>, D_2025_03_10, <<>>, "b1" >>,
      << <<"A">>, D_2025_03_10, Bg_short, "b1" >>,
      << <<"A">>, D_2025_01_15, Bg_161, "b1" >>,
      << <<"A", " ">>, D_2024_12_31, Bg_other, "b1" >>,
      << <<"A">>, NullStr, Bg_short, "b2" >>,
      << <<"B">>, D_2025_01_15, Bg_160, "b2" >>,
      << <<"B">>, D_2025_03_10, Bg_blank, "b1" >>,
      << <<>>, D_2025_01_15, Bg_short, "b1" >>,
      << NullStr, D_2024_12_31, NullStr, "b1" >> }
NewsRows ==
    { [keyword |-> k[1], created_at |-> k[2], background |-> k[3],
       question |-> <<"q">>, batch_id |-> k[4]] : k \in NewsRowKinds }

\* order=created_at.desc: newest first, the rows without created_at first.
NewsOrdered(t) ==
    \A i \in 1..(Len(t) - 1) :
        \/ t[i].created_at = NullStr
        \/ t[i + 1].created_at # NullStr /\ StrLe(t[i + 1].created_at, t[i].created_at)
NewsTables ==
    { t \in UNION { [1..k -> NewsRows] : k \in 0..MaxNewsRows } : NewsOrdered(t) }

\* hit(r): the lowered query is in the lowered keyword, background or question.
Hit(r, qq) ==
    \/ Contains(Lower(StrOf(r.keyword)), qq)
    \/ Contains(Lower(StrOf(r.background)), qq)
    \/ Contains(Lower(StrOf(r.question)), qq)

\* The group of a row: (r.get("keyword") or "").strip() or the unclassified label.
NewsKeyword(r) ==
    LET kw == Strip(IF r.keyword = NullStr THEN <<>> ELSE r.keyword)
    IN IF kw = <<>> THEN Unclassified_ko ELSE kw

\* (bg[:160] + ellipsis) if len(bg) > 160 else bg
Preview(bg) ==
    IF Len(bg) > PreviewLen THEN SubSeq(bg, 1, PreviewLen) \o <<"ellipsis">> ELSE bg

\* latest_at left at the created_at of the first row of the group.
LatestAtOfFirstRow(latest_at, created_at) == latest_at

\* latest_at after a row: replaced when the row has a created_at and the
\* group has none yet or a smaller one as strings.
LatestAt(latest_at, created_at) ==
    IF created_at # NullStr /\ (latest_at = NullStr \/ ~StrLe(created_at, latest_at))
    THEN created_at ELSE latest_at

\* The loop over the rows: agg as its entries in insertion order.
RECURSIVE NewsAgg(_, _, _)
NewsAgg(rows, i, agg) ==
    IF i > Len(rows) THEN agg
    ELSE LET r == rows[i]
             kw == NewsKeyword(r)
             created_at == r.created_at
             bg == Strip(IF r.background = NullStr THEN <<>> ELSE r.background)
             agg1 == IF \E j \in DOMAIN agg : agg[j].keyword = kw
                     THEN agg
                     ELSE Append(agg, [keyword |-> kw, qa_count |-> 0,
                                       latest_at |-> created_at,
                                       background_preview |-> Preview(bg)])
         IN NewsAgg(rows, i + 1,
                [j \in DOMAIN agg1 |->
                    IF agg1[j].keyword # kw THEN agg1[j]
                    ELSE [agg1[j] EXCEPT
                            !.qa_count = @ + 1,
                            !.latest_at = LatestAt(@, created_at)]])

NewsKeywordRank(k) ==
    CASE k = <<"A">> -> 1 [] k = <<"B">> -> 2 [] k = Unclassified_ko -> 3

\* The sort key (str(latest_at or ""), qa_count, keyword): a < b.
NewsKeyLt(a, b) ==
    LET la == IF a.latest_at = NullStr THEN <<>> ELSE a.latest_at
        lb == IF b.latest_at = NullStr THEN <<>> ELSE b.latest_at
    IN \/ la # lb /\ StrLe(la, lb)
       \/ la = lb /\ a.qa_count < b.qa_count
       \/ la = lb /\ a.qa_count = b.qa_count
            /\ NewsKeywordRank(a.keyword) < NewsKeywordRank(b.keyword)

\* out.sort(key=..., reverse=True)
RECURSIVE NewsSort(_)
NewsSort(S) ==
    IF S = {} THEN <<>>
    ELSE LET m == CHOOSE e \in S : \A o \in S \ {e} : NewsKeyLt(o, e)
         IN <<m>> \o NewsSort(S \ {m})

NewsQueries == {NullStr, <<"a">>, <<" ">>}
NewsBatches == {"", "b1"}

NewsInit ==
    /\ client = Off /\ trend = Off /\ snip = Off /\ speech = Off
    /\ law = Off /\ meta = Off /\ ui = Off
    /\ \E t \in NewsTables, q \in NewsQueries, b \in NewsBatches :
         news = [pc |-> "start", table |-> t, q |-> q, batch_id |-> b,
                 rows |-> <<>>, out |-> <<>>]

\* api_news_issues: the GET, the search filter, the grouping and the sort.
api_news_issues ==
    /\ news.pc = "start"
    /\ LET fetched == Window(SelectSeq(news.table, LAMBDA r :
                                news.batch_id # "" => r.batch_id = news.batch_id),
                             0, Min(Max(NewsLimit, 100), 5000))
           rows == IF news.q # NullStr /\ news.q # <<>>
                   THEN SelectSeq(fetched, LAMBDA r : Hit(r, Lower(Strip(news.q))))
                   ELSE fetched
           agg == NewsAgg(rows, 1, <<>>)
       IN news' = [news EXCEPT !.pc = "done", !.rows = rows,
                       !.out = NewsSort({ agg[j] : j \in DOMAIN agg })]
    /\ UNCHANGED <<client, trend, snip, speech, law, meta, ui>>

NewsNext == api_news_issues

SpecNews == NewsInit /\ [][NewsNext]_vars


\* The filtered rows of the group of keyword k, for a way kw of naming the
\* group of a row.
NewsGroup(kw(_), k) == SelectSeq(news.rows, LAMBDA r : kw(r) = k)

\* The keyword of a row as it is, the empty one mapped to the unclassified label.
RawKeyword(r) ==
    IF r.keyword = NullStr \/ r.keyword = <<>> THEN Unclassified_ko ELSE r.keyword

\* The keyword of a row with the spaces around it removed, the empty one
\* mapped to the unclassified label.
TrimmedKeyword(r) ==
    LET k == IF r.keyword = NullStr THEN <<>> ELSE r.keyword
        first == { i \in DOMAIN k : k[i] # " " }
    IN IF first = {} THEN Unclassified_ko
       ELSE SubSeq(k, CHOOSE i \in first : \A j \in first : i <= j,
                      CHOOSE i \in first : \A j \in first : i >= j)

\* The largest created_at of a group as strings, NullStr when no row has one.
MaxCreatedAt(group) ==
    LET dated == { group[i].created_at : i \in DOMAIN group } \ {NullStr}
    IN IF dated = {} THEN NullStr
       ELSE CHOOSE d \in dated : \A e \in dated : StrLe(e, d)

\* One issue per group, with the group's size and its largest created_at.
IssuesOf(kw(_)) ==
    /\ { news.out[j].keyword : j \in DOMAIN news.out }
         = { kw(news.rows[i]) : i \in DOMAIN news.rows }
    /\ Len(news.out) = Cardinality({ kw(news.rows[i]) : i \in DOMAIN news.rows })
    /\ \A j \in DOMAIN news.out :
          /\ news.out[j].qa_count = Len(NewsGroup(kw, news.out[j].keyword))
          /\ news.out[j].latest_at = MaxCreatedAt(NewsGroup(kw, news.out[j].keyword))

RECURSIVE SumQaCount(_)
SumQaCount(out) == IF out = <<>> THEN 0 ELSE Head(out).qa_count + SumQaCount(Tail(out))

\* C18 as stated: the issues list has exactly one issue per distinct keyword
\* (the empty keyword mapped to the unclassified label) among the filtered
\* rows; qa_count is the number of rows with that keyword, latest_at the
\* largest created_at of those rows as strings, and the qa_counts sum to the
\* number of filtered rows.
C18_IssuePerKeyword ==
    news.pc = "done" =>
        /\ IssuesOf(RawKeyword)
        /\ SumQaCount(news.out) = Len(news.rows)

\* C18, amended: one issue per distinct keyword after the spaces around it are
\* removed (the empty one mapped to the unclassified label); qa_count is the
\* number of rows of that trimmed keyword, latest_at the largest created_at of
\* those rows that have one, and the qa_counts sum to the number of filtered
\* rows.
C18_IssuePerTrimmedKeyword ==
    news.pc = "done" =>
        /\ IssuesOf(TrimmedKeyword)
        /\ SumQaCount(news.out) = Len(news.rows)

\* Three rows of one keyword, the first without created_at, are one issue of
\* 3 with the largest created_at.
C18_Witness ==
    /\ news.pc = "done" /\ Len(news.rows) = 3
    /\ news.rows[1].created_at = NullStr
    /\ news.rows[2].created_at = D_2025_03_10
    /\ news.rows[3].created_at = D_2025_01_15
    /\ Len(news.out) = 1
    /\ news.out[1].keyword = <<"A">>
    /\ news.out[1].qa_count = 3
    /\ news.out[1].latest_at = D_2025_03_10

\* The background of a row, trimmed; empty when missing.
TrimmedBackground(r) == Strip(IF r.background = NullStr THEN <<>> ELSE r.background)

\* C19: an issue's background_preview is taken from the first-seen row of its
\* keyword group that has a non-empty background, cut to 160 characters with a
\* trailing ellipsis when longer; it is empty only when no row of the group
\* has a non-empty background.
C19_PreviewOfFirstNonEmpty ==
    news.pc = "done" =>
        \A j \in DOMAIN news.out :
            LET group == NewsGroup(TrimmedKeyword, news.out[j].keyword)
                with_bg == SelectSeq(group, LAMBDA r : TrimmedBackground(r) # <<>>)
            IN IF with_bg = <<>> THEN news.out[j].background_preview = <<>>
               ELSE LET bg == TrimmedBackground(with_bg[1])
                    IN news.out[j].background_preview
                         = IF Len(bg) > 160
                           THEN SubSeq(bg, 1, 160) \o <<"ellipsis">> ELSE bg


(***************************************************************************)
(* main.py, the dashboard page: buildKeywordsFromRow.  A column is given   *)
(* as what safeParseJSON makes of it: "none" (missing or not JSON),        *)
(* "array" or "object" with its items; the free-text column as the matches *)
(* of its pattern.  A weight of NullInt is one that is not a finite number.*)
(***************************************************************************)

Kw_budget == <<"ye", "san">>
Kw_policy == <<"jeong", "chaek">>
Kw_welfare == <<"bok", "ji">>

KwItem(k, w) == [keyword |-> k, weight |-> w]

RawColumns ==
    { [kind |-> "none", items |-> <<>>],
      [kind |-> "object", items |-> <<KwItem(Kw_budget, 5)>>],
      [kind |-> "array", items |-> <<>>],
      [kind |-> "array", items |-> <<KwItem(Kw_budget, 5)>>],
      [kind |-> "array", items |-> <<KwItem(<<" ">>, 5)>>],
      [kind |-> "array", items |-> <<KwItem(Kw_budget, 0)>>],
      [kind |-> "array", items |-> <<KwItem(NullStr, 5)>>],
      [kind |-> "array", items |-> <<KwItem(<<" ", "ye", "san">>, 5), KwItem(Kw_welfare, NullInt)>>] }

MapColumns ==
    { [kind |-> "none", items |-> <<>>],
      [kind |-> "array", items |-> <<KwItem(Kw_policy, 3)>>],
      [kind |-> "object", items |-> <<>>],
      [kind |-> "object", items |-> <<KwItem(Kw_policy, 3)>>],
      [kind |-> "object", items |-> <<KwItem(Kw_policy, 0), KwItem(<<" ">>, 3)>>] }

TextColumns ==
    { <<>>, <<KwItem(Kw_welfare, 2)>>, <<KwItem(Kw_welfare, NullInt)>>,
      <<KwItem(<<" ">>, 1), KwItem(<<"bok", "ji", " ">>, 2)>> }

\* .map(...) to {text, weight} and .filter(x => x.text &&
\* Number.isFinite(x.weight) && x.weight > 0)
KwEntries(items) ==
    LET mapped == [i \in DOMAIN items |->
                     [text |-> Strip(IF items[i].keyword = NullStr THEN <<>>
                                     ELSE items[i].keyword),
                      weight |-> items[i].weight]]
    IN SelectSeq(mapped, LAMBDA x :
            x.text # <<>> /\ x.weight # NullInt /\ x.weight > 0)

\* The entries of the raw array: the items with a keyword or a text.
RawEntries(raw) ==
    IF raw.kind = "array" /\ raw.items # <<>>
    THEN KwEntries(SelectSeq(raw.items, LAMBDA x : x.keyword # NullStr))
    ELSE <<>>

\* The entries of the weight map, when it is an object that is no array.
MapEntries(mp) == IF mp.kind = "object" THEN KwEntries(mp.items) ELSE <<>>

\* buildKeywordsFromRow joining the entries of the three encodings.
buildKeywordsFromRow_merged(row) ==
    RawEntries(row.raw) \o MapEntries(row.mp) \o KwEntries(row.s)

buildKeywordsFromRow(row) ==
    IF RawEntries(row.raw) # <<>> THEN RawEntries(row.raw)
    ELSE IF MapEntries(row.mp) # <<>> THEN MapEntries(row.mp)
    ELSE KwEntries(row.s)

KeywordsInit ==
    /\ client = Off /\ trend = Off /\ snip = Off /\ speech = Off
    /\ law = Off /\ meta = Off /\ news = Off
    /\ \E raw \in RawColumns, mp \in MapColumns, txt \in TextColumns :
         ui = [pc |-> "start", row |-> [raw |-> raw, mp |-> mp, s |-> txt],
               out |-> <<>>]

BuildKeywordsFromRow ==
    /\ ui.pc = "start"
    /\ ui' = [ui EXCEPT !.pc = "done", !.out = buildKeywordsFromRow(ui.row)]
    /\ UNCHANGED <<client, trend, snip, speech, law, meta, news>>

KeywordsNext == BuildKeywordsFromRow

SpecKeywords == KeywordsInit /\ [][KeywordsNext]_vars

\* An entry with a non-empty text and a finite weight above 0.
ValidKw(x) == x.text # <<>> /\ x.text # <<" ">> /\ x.weight # NullInt /\ x.weight > 0

\* The texts an encoding offers, as they stand in the column.
TextsOf(items) == { Strip(IF items[i].keyword = NullStr THEN <<>> ELSE items[i].keyword) :
                      i \in DOMAIN items }

\* The returned entries all come from the items of one column.
OutFrom(items) ==
    \A j \in DOMAIN ui.out :
        \E i \in DOMAIN items :
            /\ items[i].keyword # NullStr
            /\ ui.out[j].text = Strip(items[i].keyword)
            /\ ui.out[j].weight = items[i].weight

\* The column holds an item that makes a valid entry.
Yields(items) ==
    \E i \in DOMAIN items :
        /\ items[i].keyword # NullStr /\ Strip(items[i].keyword) # <<>>
        /\ items[i].weight # NullInt /\ items[i].weight > 0

RawYields == ui.row.raw.kind = "array" /\ Yields(ui.row.raw.items)
MapYields == ui.row.mp.kind = "object" /\ Yields(ui.row.mp.items)

\* C20: keyword extraction returns entries from exactly one encoding, the
\* first of raw JSON array, weight map, free text that yields a valid
\* entry, never a merge; every returned entry has a non-empty text and a
\* finite weight above 0; the list is empty when no encoding yields one.
C20_OneEncoding ==
    ui.pc = "done" =>
        /\ \A j \in DOMAIN ui.out : ValidKw(ui.out[j])
        /\ RawYields => (ui.out # <<>> /\ OutFrom(ui.row.raw.items))
        /\ (~RawYields /\ MapYields) => (ui.out # <<>> /\ OutFrom(ui.row.mp.items))
        /\ (~RawYields /\ ~MapYields /\ Yields(ui.row.s))
              => (ui.out # <<>> /\ OutFrom(ui.row.s))
        /\ (~RawYields /\ ~MapYields /\ ~Yields(ui.row.s)) => ui.out = <<>>

\* A row with a valid raw array and a valid weight map gave the raw entry only.
C20_Witness ==
    /\ ui.pc = "done"
    /\ ui.row.raw = [kind |-> "array", items |-> <<KwItem(Kw_budget, 5)>>]
    /\ ui.row.mp = [kind |-> "object", items |-> <<KwItem(Kw_policy, 3)>>]
    /\ ui.out = <<[text |-> Kw_budget, weight |-> 5]>>

(***************************************************************************)
(* main.py, the dashboard page: partyColor.  A party name is a sequence of *)
(* its syllables; css tells whether the browser supports the gradient.     *)
(***************************************************************************)

MaxPartyLen == 3

P_deobureominjudang == <<"deo", "bul", "eo", "min", "ju", "dang">>
P_minjudang == <<"min", "ju", "dang">>
P_gungminuihim == <<"guk", "min", "ui", "him">>
P_gibonsodeukdang == <<"gi", "bon", "so", "deuk", "dang">>
P_joguk == <<"jo", "guk", "hyeok", "sin", "dang">>
P_miraetonghap == <<"mi", "rae", "tong", "hap", "dang">>
P_miraehanguk == <<"mi", "rae", "han", "guk", "dang">>
P_jeonguidang == <<"jeong", "ui", "dang">>
P_deobureosimin == <<"deo", "bul", "eo", "si", "min", "dang">>
P_yeollinminju == <<"yeol", "rin", "min", "ju", "dang">>
P_saenuridang == <<"sae", "nu", "ri", "dang">>
P_gungminuidang == <<"guk", "min", "ui", "dang">>
P_musosok == <<"mu", "so", "sok">>

OPEN_HEX == "#003E98"
OPEN_GRAD == "linear-gradient(90deg, #003E98 0% 50%, #FBC700 50% 100%)"
OPEN(css) == IF css THEN OPEN_GRAD ELSE OPEN_HEX

\* const map = new Map([...])
PartyMap(css) ==
    { <<P_deobureominjudang, "#003B96">>, <<P_minjudang, "#003B96">>,
      <<P_gungminuihim, "#E61E2B">>,
      <<P_gibonsodeukdang, "#00D2C3">>,
      <<P_joguk, "#0073CF">>,
      <<P_miraetonghap, "#EF426F">>,
      <<P_miraehanguk, "#B4065F">>,
      <<P_jeonguidang, "#FFED00">>,
      <<P_deobureosimin, "#006CB7">>,
      <<P_yeollinminju, OPEN(css)>>,
      <<P_saenuridang, "#C9252B">>,
      <<P_gungminuidang, "#006241">>,
      <<P_musosok, "#9ca3af">> }

\* partyColor ending in the colour of the unaffiliated.
partyColor_unaffiliated_fallback(party, css) ==
    LET p == Strip(IF party = NullStr THEN <<>> ELSE party)
    IN IF \E e \in PartyMap(css) : e[1] = p
       THEN (CHOOSE e \in PartyMap(css) : e[1] = p)[2]
       ELSE IF Contains(p, <<"deo", "bul", "eo">>) \/ Contains(p, <<"min", "ju">>)
       THEN "#003B96"
       ELSE "#9ca3af"

partyColor(party, css) ==
    LET p == Strip(IF party = NullStr THEN <<>> ELSE party)
    IN IF \E e \in PartyMap(css) : e[1] = p
       THEN (CHOOSE e \in PartyMap(css) : e[1] = p)[2]
       ELSE IF Contains(p, <<"yeol", "rin", "min", "ju">>) THEN OPEN(css)
       ELSE IF Contains(p, <<"deo", "bul", "eo", "si", "min">>) THEN "#006CB7"
       ELSE IF Contains(p, <<"mi", "rae", "han", "guk">>) THEN "#B4065F"
       ELSE IF Contains(p, <<"mi", "rae", "tong", "hap">>) THEN "#EF426F"
       ELSE IF Contains(p, <<"sae", "nu", "ri">>) THEN "#C9252B"
       ELSE IF Contains(p, <<"guk", "min", "ui", "dang">>) THEN "#006241"
       ELSE IF Contains(p, <<"jeong", "ui">>) THEN "#FFED00"
       ELSE IF Contains(p, <<"deo", "bul", "eo">>) \/ Contains(p, <<"min", "ju">>)
       THEN "#003B96"
       ELSE IF Contains(p, <<"guk", "min", "ui", "him">>) THEN "#E61E2B"
       ELSE IF Contains(p, <<"gi", "bon", "so", "deuk">>) THEN "#00D2C3"
       ELSE IF Contains(p, <<"jo", "guk">>) THEN "#0073CF"
       ELSE IF Contains(p, <<"mu", "so", "sok">>) THEN "#9ca3af"
       ELSE "#64748b"

\* The party strings given: the names of the table, bare and padded or
\* extended, null, and every short string over a few syllables.
PartySyllables == {"min", "ju", "deo", "jo", "guk", "X", " "}

PartyNames ==
    { P_deobureominjudang, P_minjudang, P_gungminuihim, P_gibonsodeukdang,
      P_joguk, P_miraetonghap, P_miraehanguk, P_jeonguidang, P_deobureosimin,
      P_yeollinminju, P_saenuridang, P_gungminuidang, P_musosok }

PartyInputs ==
    {NullStr}
    \cup PartyNames
    \cup { <<" ">> \o n \o <<" ">> : n \in PartyNames }
    \cup { <<"X">> \o n : n \in PartyNames }
    \cup UNION { [1..k -> PartySyllables] : k \in 0..MaxPartyLen }

PartyInit ==
    /\ client = Off /\ trend = Off /\ snip = Off /\ speech = Off
    /\ law = Off /\ meta = Off /\ news = Off
    /\ \E party \in PartyInputs, css \in BOOLEAN :
         ui = [pc |-> "start", party |-> party, css |-> css,
               color |-> "", again |-> ""]

\* A chart asks for the colour of the party.
PartyColor ==
    /\ ui.pc = "start"
    /\ ui' = [ui EXCEPT !.pc = "drawn", !.color = partyColor(ui.party, ui.css)]
    /\ UNCHANGED <<client, trend, snip, speech, law, meta, news>>

\* Another chart of the same page asks for it again.
PartyColorAgain ==
    /\ ui.pc = "drawn"
    /\ ui' = [ui EXCEPT !.pc = "redrawn", !.again = partyColor(ui.party, ui.css)]
    /\ UNCHANGED <<client, trend, snip, speech, law, meta, news>>

PartyNext == PartyColor \/ PartyColorAgain

SpecParty == PartyInit /\ [][PartyNext]_vars

\* The substrings of the rules that follow the table.
PartyRuleNeedles ==
    { <<"yeol", "rin", "min", "ju">>, <<"deo", "bul", "eo", "si", "min">>,
      <<"mi", "rae", "han", "guk">>, <<"mi", "rae", "tong", "hap">>,
      <<"sae", "nu", "ri">>, <<"guk", "min", "ui", "dang">>, <<"jeong", "ui">>,
      <<"deo", "bul", "eo">>, <<"min", "ju">>, <<"guk", "min", "ui", "him">>,
      <<"gi", "bon", "so", "deuk">>, <<"jo", "guk">>, <<"mu", "so", "sok">> }

PartyTrimmed == Strip(IF ui.party = NullStr THEN <<>> ELSE ui.party)

PartyUnmatched ==
    /\ PartyTrimmed \notin PartyNames
    /\ \A n \in PartyRuleNeedles : ~Contains(PartyTrimmed, n)

\* C21: the colour is a function of the party string: asked twice in one
\* page it is the same; the two names of the Democratic Party give
\* #003B96; a string matching no table entry and no substring rule gives
\* the neutral #64748b.
C21_PartyColor ==
    /\ ui.pc \in {"drawn", "redrawn"} =>
         /\ ui.party \in {P_deobureominjudang, P_minjudang} => ui.color = "#003B96"
         /\ PartyUnmatched => ui.color = "#64748b"
    /\ ui.pc = "redrawn" => ui.again = ui.color

\* An unmatched, non-empty party string was coloured and coloured again.
C21_Witness ==
    /\ ui.pc = "redrawn"
    /\ ui.party = <<"X", "guk">>
    /\ ui.color = "#64748b"

(***************************************************************************)
(* main.py, the dashboard page: the initial load and the handlers of the   *)
(* selectors, the tabs and the trend form.  A fetch is one step whose      *)
(* outcome is chosen with it; an exception nobody catches ends the         *)
(* function it is thrown in and everything awaiting it.                    *)
(***************************************************************************)

MaxEvents == 2

Panels == {"sessions", "recap", "q", "law", "trend", "party"}

PageSteps ==
    <<"initSessions", "loadRecap", "loadQuestions", "loadLaw",
      "initTrend2Controls", "loadTrend2", "loadPartyMetrics", "idle">>

StepAfter(pc) == PageSteps[(CHOOSE i \in DOMAIN PageSteps : PageSteps[i] = pc) + 1]

PageInit ==
    /\ client = Off /\ trend = Off /\ snip = Off /\ speech = Off
    /\ law = Off /\ meta = Off /\ news = Off
    /\ ui = [pc |-> "initSessions", aborted |-> FALSE, hasSession |-> FALSE,
             issued |-> {}, failed |-> {},
             view |-> [p \in Panels |-> "none"],
             trendDirty |-> FALSE, applyDisabled |-> TRUE,
             l2one |-> FALSE, seriesCause |-> "none",
             last |-> "none", ok |-> TRUE,
             before |-> [trendDirty |-> FALSE, applyDisabled |-> TRUE],
             events |-> 0]

\* The page after a fetch of panel p: its rows drawn, or the exception
\* thrown with nothing drawn.
Fetched(u, p, ok) ==
    [u EXCEPT !.issued = @ \cup {p},
              !.failed = IF ok THEN @ \ {p} ELSE @ \cup {p},
              !.view[p] = IF ok THEN "rows" ELSE @]

\* loadRecap and loadQuestions: a hint without a session, else the fetch.
loadRecap(u, ok) ==
    IF ~u.hasSession THEN [u EXCEPT !.view["recap"] = "hint"] ELSE Fetched(u, "recap", ok)

loadQuestions(u, ok) ==
    IF ~u.hasSession THEN [u EXCEPT !.view["q"] = "hint"] ELSE Fetched(u, "q", ok)

\* A loader that catches: the rows, or the error drawn in its own panel.
Caught(u, p, ok) ==
    [u EXCEPT !.issued = @ \cup {p},
              !.failed = IF ok THEN @ \ {p} ELSE @ \cup {p},
              !.view[p] = IF ok THEN "rows" ELSE "err"]

loadTrend2(u, ok, cause) ==
    [Caught(u, "trend", ok) EXCEPT
        !.trendDirty = IF ok THEN FALSE ELSE @,
        !.applyDisabled = IF ok THEN TRUE ELSE @,
        !.seriesCause = cause,
        !.before = [trendDirty |-> u.trendDirty, applyDisabled |-> u.applyDisabled]]

markTrendDirty(u) == [u EXCEPT !.trendDirty = TRUE, !.applyDisabled = FALSE]

\* A step of the initial load went through, or threw and ended the load.
Proceed(u, threw, name, ok) ==
    [u EXCEPT !.pc = IF threw THEN "idle" ELSE StepAfter(ui.pc),
              !.aborted = threw, !.last = name, !.ok = ok]

PageFrame == UNCHANGED <<client, trend, snip, speech, law, meta, news>>

InitSessions ==
    /\ ui.pc = "initSessions"
    /\ \E ok \in BOOLEAN, has \in BOOLEAN :
         ui' = Proceed([Fetched(ui, "sessions", ok) EXCEPT !.hasSession = ok /\ has],
                       ~ok, "initSessions", ok)
    /\ PageFrame

LoadRecap ==
    /\ ui.pc = "loadRecap"
    /\ \E ok \in BOOLEAN :
         ui' = Proceed(loadRecap(ui, ok), ui.hasSession /\ ~ok, "loadRecap", ok)
    /\ PageFrame

LoadQuestions ==
    /\ ui.pc = "loadQuestions"
    /\ \E ok \in BOOLEAN :
         ui' = Proceed(loadQuestions(ui, ok), ui.hasSession /\ ~ok, "loadQuestions", ok)
    /\ PageFrame

LoadLaw ==
    /\ ui.pc = "loadLaw"
    /\ \E ok \in BOOLEAN : ui' = Proceed(Caught(ui, "law", ok), FALSE, "loadLaw", ok)
    /\ PageFrame

\* The options of the trend form, and the L3 options of the first L2.
InitTrend2Controls ==
    /\ ui.pc = "initTrend2Controls"
    /\ \E ok \in BOOLEAN, l2 \in BOOLEAN :
         ui' = Proceed([ui EXCEPT !.l2one = IF ok THEN l2 ELSE @],
                       ~ok, "initTrend2Controls", ok)
    /\ PageFrame

LoadTrend2 ==
    /\ ui.pc = "loadTrend2"
    /\ \E ok \in BOOLEAN :
         ui' = Proceed(loadTrend2(ui, ok, "initial"), FALSE, "loadTrend2", ok)
    /\ PageFrame

LoadPartyMetrics ==
    /\ ui.pc = "loadPartyMetrics"
    /\ \E ok \in BOOLEAN :
         ui' = Proceed(Caught(ui, "party", ok), FALSE, "loadPartyMetrics", ok)
    /\ PageFrame

Event(u, name, ok) == [u EXCEPT !.events = @ + 1, !.last = name, !.ok = ok]

\* A tab button: loadRecap with no catch.
TabClick ==
    /\ ui.events < MaxEvents
    /\ \E ok \in BOOLEAN : ui' = Event(loadRecap(ui, ok), "tab", ok)
    /\ PageFrame

\* A change of one of the four selectors: refreshBoth, both settled.
RefreshBoth ==
    /\ ui.events < MaxEvents
    /\ \E okR \in BOOLEAN, okQ \in BOOLEAN :
         ui' = Event(loadQuestions(loadRecap(ui, okR), okQ), "refreshBoth", okR /\ okQ)
    /\ PageFrame

\* A change of a control of the trend form that fetches nothing.
TrendControlChange ==
    /\ ui.events < MaxEvents
    /\ ui' = Event(markTrendDirty(ui), "change", TRUE)
    /\ PageFrame

\* A change of the group to L3 or of the single L2: reloadL3Options, with
\* no catch, then markTrendDirty.
TrendL3Change ==
    /\ ui.events < MaxEvents
    /\ \E ok \in BOOLEAN :
         ui' = Event(IF ui.l2one /\ ~ok THEN ui ELSE markTrendDirty(ui),
                     "change", ~ui.l2one \/ ok)
    /\ PageFrame

\* A click on Apply, which a disabled button does not take.
ApplyClick ==
    /\ ui.events < MaxEvents
    /\ ~ui.applyDisabled
    /\ \E ok \in BOOLEAN : ui' = Event(loadTrend2(ui, ok, "apply"), "apply", ok)
    /\ PageFrame

PageNext ==
    \/ InitSessions \/ LoadRecap \/ LoadQuestions \/ LoadLaw
    \/ InitTrend2Controls \/ LoadTrend2 \/ LoadPartyMetrics
    \/ TabClick \/ RefreshBoth \/ TrendControlChange \/ TrendL3Change
    \/ ApplyClick

SpecPage == PageInit /\ [][PageNext]_vars

\* C22: a panel whose fetch failed shows an inline error, and once the
\* initial load is over every panel that needs no session has issued its
\* fetch, whatever failed before it.
C22_PanelFailureIsLocal ==
    /\ \A p \in ui.failed : ui.view[p] = "err"
    /\ ui.pc = "idle" => {"law", "trend", "party"} \subseteq ui.issued

\* C24: a change of a trend control marks the form dirty and enables
\* Apply; the series is fetched by the initial load and by Apply only; a
\* successful load clears the flag and disables the button; a failed load
\* leaves both as they were.
C24_ApplyOnly ==
    /\ ui.last = "change" => (ui.trendDirty /\ ~ui.applyDisabled)
    /\ ui.seriesCause \in {"none", "initial", "apply"}
    /\ (ui.last \in {"loadTrend2", "apply"} /\ ui.ok)
          => (~ui.trendDirty /\ ui.applyDisabled)
    /\ (ui.last \in {"loadTrend2", "apply"} /\ ~ui.ok)
          => (ui.trendDirty = ui.before.trendDirty
              /\ ui.applyDisabled = ui.before.applyDisabled)

(***************************************************************************)
(* main.py, the dashboard page: the assembly and session selectors of the  *)
(* recap panel (top) and of the questioner panel (bottom).  null is        *)
(* NullInt; the value "" of a select is 0, as Number("") is.               *)
(***************************************************************************)

MaxChanges == 2

\* The session numbers /api/sessions may list.
PageSessions == {100, 353, 360, 379, 415, 420}

\* Number(x) of a state field, and x || null.
NumberOf(x) == IF x = NullInt THEN 0 ELSE x
OrNull(n) == IF n = 0 THEN NullInt ELSE n

AssemblyOf(n) == getAssemblyBySession(n)

MinOf(S) == CHOOSE x \in S : \A y \in S : x <= y
MaxOf(S) == CHOOSE x \in S : \A y \in S : x >= y

renderSessionOptions(u) ==
    LET filtered == { s \in u.allSessions : AssemblyOf(s) = NumberOf(u.assemblyNo) }
        wanted == NumberOf(u.sessionNo)
    IN IF filtered = {}
       THEN [u EXCEPT !.sessionOpts = {0}, !.sessionVal = 0, !.sessionNo = NullInt]
       ELSE IF wanted # 0 /\ wanted \in filtered
       THEN [u EXCEPT !.sessionOpts = filtered, !.sessionVal = wanted,
                      !.sessionNo = wanted]
       ELSE [u EXCEPT !.sessionOpts = filtered, !.sessionVal = MinOf(filtered),
                      !.sessionNo = OrNull(MinOf(filtered))]

renderQSessionOptions(u) ==
    LET filtered == { s \in u.allSessions : AssemblyOf(s) = NumberOf(u.qAssemblyNo) }
        wanted == NumberOf(u.qSessionNo)
    IN IF filtered = {}
       THEN [u EXCEPT !.qSessionOpts = {0}, !.qSessionVal = 0, !.qSessionNo = NullInt]
       ELSE IF wanted # 0 /\ wanted \in filtered
       THEN [u EXCEPT !.qSessionOpts = filtered, !.qSessionVal = wanted,
                      !.qSessionNo = wanted]
       ELSE [u EXCEPT !.qSessionOpts = filtered, !.qSessionVal = MinOf(filtered),
                      !.qSessionNo = OrNull(MinOf(filtered))]

\* syncTopToQ copying the assembly only.
syncTopToQ_assembly_only(u) ==
    IF u.syncLock THEN u
    ELSE renderQSessionOptions(
            [u EXCEPT !.qAssemblyNo = u.assemblyNo, !.qAssemblyVal = u.assemblyNo])

syncTopToQ(u) ==
    IF u.syncLock THEN u
    ELSE LET r == renderQSessionOptions(
                     [u EXCEPT !.qAssemblyNo = u.assemblyNo,
                               !.qSessionNo = u.sessionNo,
                               !.qAssemblyVal = u.assemblyNo])
         IN IF r.qSessionNo # NullInt /\ r.qSessionNo # 0
            THEN [r EXCEPT !.qSessionVal = r.qSessionNo] ELSE r

syncQToTop(u) ==
    IF u.syncLock THEN u
    ELSE LET r == renderSessionOptions(
                     [u EXCEPT !.assemblyNo = u.qAssemblyNo,
                               !.sessionNo = u.qSessionNo,
                               !.assemblyVal = u.qAssemblyNo])
         IN IF r.sessionNo # NullInt /\ r.sessionNo # 0
            THEN [r EXCEPT !.sessionVal = r.sessionNo] ELSE r

initSessions(u) ==
    IF u.allSessions = {}
    THEN [u EXCEPT !.assemblyOpts = {22}, !.assemblyVal = 22,
                   !.sessionOpts = {0}, !.sessionVal = 0,
                   !.qAssemblyOpts = {22}, !.qAssemblyVal = 22,
                   !.qSessionOpts = {0}, !.qSessionVal = 0,
                   !.assemblyNo = 22, !.sessionNo = NullInt,
                   !.qAssemblyNo = 22, !.qSessionNo = NullInt]
    ELSE LET maxS == MaxOf(u.allSessions)
             base == IF AssemblyOf(maxS) = NullInt THEN 22 ELSE AssemblyOf(maxS)
             top == renderSessionOptions(
                        [u EXCEPT !.assemblyNo = base, !.sessionNo = maxS,
                                  !.assemblyVal = base])
             top2 == [top EXCEPT !.sessionNo = OrNull(top.sessionVal)]
             q == renderQSessionOptions(
                      [top2 EXCEPT !.qAssemblyNo = top2.assemblyNo,
                                   !.qSessionNo = top2.sessionNo,
                                   !.qAssemblyVal = top2.assemblyNo])
         IN [q EXCEPT !.qSessionNo = OrNull(q.qSessionVal)]

SelectorsInit ==
    /\ client = Off /\ trend = Off /\ snip = Off /\ speech = Off
    /\ law = Off /\ meta = Off /\ news = Off
    /\ \E sessions \in SUBSET PageSessions :
         ui = [pc |-> "load", allSessions |-> sessions, syncLock |-> FALSE,
               assemblyNo |-> NullInt, sessionNo |-> NullInt,
               qAssemblyNo |-> NullInt, qSessionNo |-> NullInt,
               assemblyOpts |-> {20, 21, 22}, assemblyVal |-> 20,
               qAssemblyOpts |-> {20, 21, 22}, qAssemblyVal |-> 20,
               sessionOpts |-> {}, sessionVal |-> 0,
               qSessionOpts |-> {}, qSessionVal |-> 0,
               last |-> "none", changes |-> 0]

SelectorsFrame == UNCHANGED <<client, trend, snip, speech, law, meta, news>>

Changed(u, name) == [u EXCEPT !.changes = @ + 1, !.last = name]

SelInitSessions ==
    /\ ui.pc = "load"
    /\ ui' = [initSessions(ui) EXCEPT !.pc = "ready", !.last = "init"]
    /\ SelectorsFrame

\* The user picks another option of a select: its change handler.
AssemblySelChange ==
    /\ ui.pc = "ready" /\ ui.changes < MaxChanges
    /\ \E a \in ui.assemblyOpts \ {ui.assemblyVal} :
         LET u1 == [ui EXCEPT !.assemblyVal = a, !.assemblyNo = a,
                              !.sessionNo = NullInt]
             u2 == renderSessionOptions(u1)
             u3 == [u2 EXCEPT !.sessionNo = OrNull(u2.sessionVal)]
         IN ui' = Changed(syncTopToQ(u3), "assemblySel")
    /\ SelectorsFrame

SessionSelChange ==
    /\ ui.pc = "ready" /\ ui.changes < MaxChanges
    /\ \E v \in ui.sessionOpts \ {ui.sessionVal} :
         ui' = Changed(syncTopToQ([ui EXCEPT !.sessionVal = v, !.sessionNo = v]),
                       "sessionSel")
    /\ SelectorsFrame

QAssemblySelChange ==
    /\ ui.pc = "ready" /\ ui.changes < MaxChanges
    /\ ~ui.syncLock
    /\ \E a \in ui.qAssemblyOpts \ {ui.qAssemblyVal} :
         LET u1 == [ui EXCEPT !.qAssemblyVal = a, !.qAssemblyNo = a,
                              !.qSessionNo = NullInt]
             u2 == renderQSessionOptions(u1)
             u3 == [u2 EXCEPT !.qSessionNo = OrNull(u2.qSessionVal)]
         IN ui' = Changed(syncQToTop(u3), "qAssemblySel")
    /\ SelectorsFrame

QSessionSelChange ==
    /\ ui.pc = "ready" /\ ui.changes < MaxChanges
    /\ ~ui.syncLock
    /\ \E v \in ui.qSessionOpts \ {ui.qSessionVal} :
         ui' = Changed(syncQToTop([ui EXCEPT !.qSessionVal = v, !.qSessionNo = OrNull(v)]),
                       "qSessionSel")
    /\ SelectorsFrame

SelectorsNext ==
    \/ SelInitSessions \/ AssemblySelChange \/ SessionSelChange
    \/ QAssemblySelChange \/ QSessionSelChange

SpecSelectors == SelectorsInit /\ [][SelectorsNext]_vars

\* C23: after the initialisation and after every change handler of the
\* four selectors, the assembly and session of the recap panel equal
\* those of the questioner panel.
C23_PairsInSync ==
    ui.pc = "ready" =>
        /\ ui.assemblyNo = ui.qAssemblyNo
        /\ ui.sessionNo = ui.qSessionNo

\* The user picked session 353 at the top after the page opened on
\* another one, and the questioner panel followed.
C23_Witness ==
    /\ ui.pc = "ready" /\ ui.last = "sessionSel"
    /\ ui.sessionNo = 353 /\ ui.qSessionNo = 353 /\ ui.qSessionVal = 353

\* The listing loop of the search has ended.
Listed == speech.pc \in {"series", "widgets", "done"} /\ speech.pages > 0

\* The matching positions from the request's offset on are all collected.
NoMatchLeft ==
    LET from == Max(Matches[1], speech.offset)
    IN \/ from >= Matches[2]
       \/ /\ speech.collected # <<>>
          /\ speech.collected[1][1] <= from
          /\ speech.collected[Len(speech.collected)][2] >= Matches[2]

\* C25: the listing loop stops only with limit rows collected, at the end
\* of the data or with 20,000 rows collected: it never stops with fewer
\* than limit rows while the store holds matching rows at later offsets.
C25_ListingStopsOnlyAtEnd ==
    Listed => \/ speech.returned >= speech.limit
              \/ speech.hard_cap_hit
              \/ NoMatchLeft

(***************************************************************************)
(* routers/trend.py, api_trend2_series with recent_n_quarters, on tables   *)
(* large enough for the probe's limit: the table is a sequence of runs of  *)
(* n equal rows, newest first.                                             *)
(***************************************************************************)

MaxTrendRuns == 3

TrendRunKinds ==
    { [year |-> p[1], quarter |-> p[2], session |-> g[1], label_l2 |-> g[2], n |-> n]
      : p \in {<<2024, 4>>, <<2025, 1>>},
        g \in {<<378, "A">>, <<415, "A">>, <<415, "B">>},
        n \in {1, ProbeLimit} }

TrendRunTables ==
    { t \in UNION { [1..k -> TrendRunKinds] : k \in 0..MaxTrendRuns } :
        \A i \in 1..(Len(t) - 1) :
            ~YqLt(t[i].year, t[i].quarter, t[i + 1].year, t[i + 1].quarter) }

\* The store's answer to the probe: the runs passing label_l2=in.(...), cut
\* after limit rows.
RECURSIVE FirstRows(_, _)
FirstRows(runs, limit) ==
    IF runs = <<>> \/ limit <= 0 THEN <<>>
    ELSE <<[Head(runs) EXCEPT !.n = Min(@, limit)]>>
         \o FirstRows(Tail(runs), limit - Head(runs).n)

CategoryRuns(t, l2_in) ==
    SelectSeq(t, LAMBDA r : l2_in # {} => r.label_l2 \in l2_in)

\* The anchor taken from the first probed row whatever its session.
ProbeAnchor_any_session(probe, assemblies) ==
    IF probe = <<>> THEN <<NullInt, NullInt>>
    ELSE <<probe[1].year, probe[1].quarter>>

\* for r in probe: the first row passing the assembly filter gives (y2, q2).
ProbeAnchor(probe, assemblies) ==
    LET hits == SelectSeq(probe, LAMBDA r :
                    _session_in_assemblies(r.session, assemblies))
    IN IF hits = <<>> THEN <<NullInt, NullInt>>
       ELSE <<hits[1].year, hits[1].quarter>>

\* The rows counted by the page loop, all in its first page: those of the
\* range [y1q1, y2q2] passing the assembly filter.
RunsCounted(t, l2_in, assemblies, yq1, yq2) ==
    SelectSeq(CategoryRuns(t, l2_in), LAMBDA r :
        /\ r.year <= yq2[1]
        /\ _in_yq_range(r.year, r.quarter, yq1[1], yq1[2], yq2[1], yq2[2])
        /\ _session_in_assemblies(r.session, assemblies))

ProbeInit ==
    /\ client = Off /\ snip = Off /\ speech = Off
    /\ law = Off /\ meta = Off /\ news = Off /\ ui = Off
    /\ \E t \in TrendRunTables, l2_in \in {{}, {"A"}}, a \in {{}, {20}},
          n \in {1, 2} :
         trend = [pc |-> "anchor", table |-> t, l2_in |-> l2_in,
                  assemblies |-> a, recent_n_quarters |-> n,
                  y1 |-> NullInt, q1 |-> NullInt, y2 |-> NullInt, q2 |-> NullInt,
                  counted |-> 0]

\* The probe and the anchor; [] is returned when no probed row passes.
RunsProbe ==
    /\ trend.pc = "anchor"
    /\ LET probe == FirstRows(CategoryRuns(trend.table, trend.l2_in), ProbeLimit)
           yq2 == ProbeAnchor(probe, trend.assemblies)
           yq1 == _shift_back_quarters(yq2, Max(1, trend.recent_n_quarters) - 1)
       IN IF yq2[1] = NullInt
          THEN trend' = [trend EXCEPT !.pc = "answered"]
          ELSE trend' = [trend EXCEPT !.pc = "count",
                            !.y1 = yq1[1], !.q1 = yq1[2],
                            !.y2 = yq2[1], !.q2 = yq2[2]]
    /\ UNCHANGED <<client, snip, speech, law, meta, news, ui>>

\* The page loop, which reads these tables in one short page.
RunsCount ==
    /\ trend.pc = "count"
    /\ trend' = [trend EXCEPT !.pc = "answered",
                    !.counted = Total(RunsCounted(trend.table, trend.l2_in,
                                    trend.assemblies, <<trend.y1, trend.q1>>,
                                    <<trend.y2, trend.q2>>))]
    /\ UNCHANGED <<client, snip, speech, law, meta, news, ui>>

ProbeNext == RunsProbe \/ RunsCount

SpecProbe == ProbeInit /\ [][ProbeNext]_vars

\* The runs passing the category filters and the assembly filter.
EligibleRuns(runs) ==
    { i \in DOMAIN runs :
        /\ trend.l2_in # {} => runs[i].label_l2 \in trend.l2_in
        /\ \/ trend.assemblies = {}
           \/ 20 \in trend.assemblies /\ runs[i].session \in 353..378 }

\* (y2, q2) is the latest period of the eligible runs of runs, and the
\* series is empty only when there is none.
AnchorIsLatestOf(runs) ==
    /\ EligibleRuns(runs) # {} =>
         /\ \E i \in EligibleRuns(runs) :
                trend.y2 = runs[i].year /\ trend.q2 = runs[i].quarter
         /\ \A i \in EligibleRuns(runs) :
                ~YqLt(trend.y2, trend.q2, runs[i].year, runs[i].quarter)
         /\ trend.counted > 0
    /\ EligibleRuns(runs) = {} => (trend.y2 = NullInt /\ trend.counted = 0)

\* The rows before run i in the category-filtered answer of the store.
RowsBefore(runs, i) == Total(SubSeq(runs, 1, i - 1))

\* C26 as stated: the anchor is the latest (year, quarter) among all rows
\* satisfying the category filters and the assembly filter, and the series
\* is empty only when the table has no such row.
C26_AnchorAmongAllRows ==
    trend.pc = "answered" => AnchorIsLatestOf(trend.table)

\* C26, amended: the anchor is the latest (year, quarter) among the rows
\* satisfying the assembly filter within the 5000 newest rows that satisfy
\* the category filters, and the series is empty only when those 5000 rows
\* hold no such row.
C26_AnchorAmongProbedRows ==
    trend.pc = "answered" =>
        LET runs == CategoryRuns(trend.table, trend.l2_in)
            probed == SelectSeq(
                [i \in DOMAIN runs |->
                    [runs[i] EXCEPT !.n = IF RowsBefore(runs, i) < 5000 THEN 1 ELSE 0]],
                LAMBDA r : r.n = 1)
        IN AnchorIsLatestOf(probed)

\* 5000 rows of the 22nd assembly are newer than the rows of the 20th, the
\* filter asks for the 20th, and the answer is empty.
C26_Witness ==
    /\ trend.pc = "answered"
    /\ trend.assemblies = {20}
    /\ trend.counted = 0
    /\ Len(trend.table) = 2
    /\ trend.table[1].session = 415 /\ trend.table[1].n = ProbeLimit
    /\ trend.table[2].session = 378

(***************************************************************************)
(* main.py, the dashboard page: loadRecap with its fetch in flight.  The   *)
(* URL is built from state.tab and state.sessionNo before the await; the   *)
(* rows are stored and rendered after it, under the tab of that moment.    *)
(* Every fetch succeeds here.                                              *)
(***************************************************************************)

MaxRecapEvents == 3

RecapTabs == {"text", "people", "data"}
RecapSessions == {414, 415}

RecapInit ==
    /\ client = Off /\ trend = Off /\ snip = Off /\ speech = Off
    /\ law = Off /\ meta = Off /\ news = Off
    /\ \E s \in RecapSessions :
         ui = [pc |-> "ready", tab |-> "text", sessionNo |-> s,
               inflight |-> {},
               lastRows |-> [tab |-> "text", session |-> s],
               renderedAs |-> "text", events |-> 0]

RecapFrame == UNCHANGED <<client, trend, snip, speech, law, meta, news>>

\* loadRecap up to its await: the request for the tab and session of now.
RecapRequest(u) ==
    [u EXCEPT !.inflight = @ \cup {[tab |-> u.tab, session |-> u.sessionNo,
                                     id |-> u.events + 1]},
              !.events = @ + 1]

\* loadRecap after its await, for the response resp.
RecapStore(u, resp) ==
    [u EXCEPT !.inflight = @ \ {resp},
              !.lastRows = [tab |-> resp.tab, session |-> resp.session],
              !.renderedAs = u.tab]

RecapTabClick ==
    /\ ui.events < MaxRecapEvents
    /\ \E t \in RecapTabs : ui' = RecapRequest([ui EXCEPT !.tab = t])
    /\ RecapFrame

RecapSessionChange ==
    /\ ui.events < MaxRecapEvents
    /\ \E s \in RecapSessions \ {ui.sessionNo} :
         ui' = RecapRequest([ui EXCEPT !.sessionNo = s])
    /\ RecapFrame

\* One of the outstanding fetches resolves.
RecapResolve ==
    /\ \E resp \in ui.inflight : ui' = RecapStore(ui, resp)
    /\ RecapFrame

RecapNext == RecapTabClick \/ RecapSessionChange \/ RecapResolve

SpecRecap == RecapInit /\ [][RecapNext]_vars

\* C27: once no recap fetch is outstanding, the rows kept in lastRows and
\* rendered were fetched for the selected tab and session, and a response
\* is never rendered under a tab it was not fetched for.
C27_NoStaleRecap ==
    /\ ui.inflight = {} =>
         (ui.lastRows.tab = ui.tab /\ ui.lastRows.session = ui.sessionNo)
    /\ ui.renderedAs = ui.lastRows.tab

\* C28: in main.py's series every row whose ordinal year * 4 + quarter
\* lies in [start_ord, end_ord] passes the store's year cut
\* year >= start_ord // 4 and year <= end_ord // 4, so no row of the range
\* is dropped before the count.
C28_YearCutKeepsRange ==
    (trend.pc \in {"main_fetch", "done"} /\ trend.impl = "main" /\ trend.end_ord > 0)
    => \A i \in DOMAIN trend.table :
          LET r == trend.table[i]
          IN (/\ r.year # NullInt /\ r.quarter \in 1..4
              /\ trend.start_ord <= r.year * 4 + r.quarter
              /\ r.year * 4 + r.quarter <= trend.end_ord)
             => (/\ r.year >= trend.start_ord \div 4
                 /\ r.year <= trend.end_ord \div 4)

\* C29: a search whose start and end pass the date validation (and whose
\* limit and offset pass the parameter validation) is answered with 200
\* when every store query succeeds: no accepted date ends in a 500.
C29_AcceptedDateNever500 ==
    (/\ Answered
     /\ speech.limit >= 1 /\ speech.limit <= 5000 /\ speech.offset >= 0
     /\ speech.start_in.s = <<>> \/ IsDateLiteral(speech.start_in.s)
     /\ speech.end_in.s = <<>> \/ IsDateLiteral(speech.end_in.s))
    => speech.status = 200

(***************************************************************************)
(* The pagination loops of one request: the listing and _paged_select_all  *)
(* of routers/speech.py and the page loop of routers/trend.py, each turn   *)
(* scheduled once its store request has answered.                          *)
(***************************************************************************)

MaxLoopRuns == 2
MaxLoopRows == 3

\* The requests of the search and of the series on the smaller tables, the
\* large runs included.
LoopsInit ==
    \/ /\ SpeechInit
       /\ Len(speech.table) <= MaxLoopRuns
       /\ \A i \in DOMAIN speech.table : speech.table[i].date # D_2024_12_31
       /\ speech.start_in = Absent
       /\ speech.end_in \in {Absent, Given(D_2025_01_15)}
       /\ speech.limit \in {1, 5000}
       /\ speech.limit = 1 => ~speech.include_series
    \/ /\ TrendInit
       /\ Len(trend.table) <= MaxLoopRows
       /\ \A i \in DOMAIN trend.table :
             trend.table[i].session = 415 /\ trend.table[i].label_l2 = "A"
       /\ trend.group_by = "l2" /\ trend.l2_in = {} /\ trend.assemblies = {}

LoopsNext == SpeechNext \/ TrendNext

SpecLoops ==
    /\ LoopsInit /\ [][LoopsNext]_vars
    /\ WF_vars(ListChunk) /\ WF_vars(SeriesPaged) /\ WF_vars(WidgetsPaged)
    /\ WF_vars(SeriesPage)

\* A turn of a loop that does not leave the loop advances its offset.
LoopAdvances ==
    /\ (speech.pc = "list" /\ speech'.pc = "list")
          => speech'.cur_offset > speech.cur_offset
    /\ (speech.pc \in {"series", "widgets"} /\ speech'.pc = speech.pc)
          => speech'.paged.offset > speech.paged.offset
    /\ (trend.pc = "page" /\ trend'.pc = "page")
          => trend'.offset > trend.offset

\* The offsets never pass the end of the rows the store holds.
LoopBounded ==
    /\ speech.pc \in {"list", "series", "widgets"} =>
         /\ speech.cur_offset
               <= Max(speech.offset, Total(StoreRuns(speech.table, speech.start)))
         /\ speech.paged.offset <= Total(StoreRuns(speech.table, speech.start))
    /\ trend.pc = "page" => trend.offset <= Len(trend.table)

\* A request is in one of its pagination loops; it has left them all.
LoopRunning == speech.pc \in {"list", "series", "widgets"} \/ trend.pc = "page"
LoopOver == speech.pc \in {"off", "done"} /\ trend.pc \in {"off", "done", "rendered"}

\* C30: for a finite table every pagination loop of a request ends after
\* finitely many store requests: a turn ends the loop or strictly advances
\* the offset, which the table bounds, and the request leaves its loops.
C30_LoopsTerminate ==
    /\ [][LoopAdvances]_vars
    /\ []LoopBounded
    /\ LoopRunning ~> LoopOver

\* A listing that took a second chunk at a higher offset has ended.
C30_Witness ==
    /\ speech.pc = "done" /\ speech.status = 200
    /\ speech.pages >= 2 /\ speech.cur_offset >= 2000

====
